---- MODULE Spec2Model ----
(***************************************************************************)
(* Pipeline engine of homelab-gitops-auditor: the pipeline graph model     *)
(* (designer/PipelineBuilder.py), the node validator, the execution        *)
(* orchestrator (execution/PipelineRunner.py), the step executor and the   *)
(* log streamer.                                                           *)
(*                                                                         *)
(* The specifications of this module.                                      *)
(*   SpecBuilder  one Pipeline edited through PipelineBuilder's mutation   *)
(*                operations and queried through get_execution_order,      *)
(*                _calculate_execution_order, _has_cycles and              *)
(*                validate_pipeline.                                       *)
(*   SpecStages   the staging functions applied to each acyclic pipeline   *)
(*                of up to MaxNodes nodes built with add_node and          *)
(*                connect_nodes.                                           *)
(*   SpecValidator  the NodeValidator (designer/NodeValidator.py) and      *)
(*                validate_pipeline applied to pipelines of source and     *)
(*                deploy nodes under a range of configurations.            *)
(*   Spec         one PipelineRunner on one asyncio event loop: the        *)
(*                scheduler task, the node tasks of the stage being run,   *)
(*                and the callers of execute_pipeline, cancel_execution,   *)
(*                start and stop.  Every action is one run of a coroutine  *)
(*                between two suspension points (await of a sleep, of a    *)
(*                gather, of a step), which is atomic on an event loop.    *)
(*   SpecLive     Spec with the passing of the retention time and weak     *)
(*                fairness of the monitoring task.                         *)
(*   SpecStep     one StepExecutor (execution/StepExecutor.py) and the     *)
(*                processes of its steps.                                  *)
(*   SpecLog      the LogBuffer of one LogStreamer                         *)
(*                (execution/LogStreamer.py): entries, subscribers and     *)
(*                queries.                                                 *)
(*   SpecQueue    the queues of the pull streams of the LogStreamer.       *)
(*   SpecHistory  the log files and get_historical_logs.                   *)
(*   SpecStream   one consumer of get_stream_generator, with weak          *)
(*                fairness of the generator and of its timeout.            *)
(***************************************************************************)
EXTENDS Integers, Sequences, FiniteSets, TLC

VARIABLES
    pipeline,          \* Pipeline: [id, nodes (list of PipelineNode), connections (list of {from,to})]
    nextId,            \* next fresh uuid, as a counter (uuid.uuid4())
    calls,             \* number of mutating PipelineBuilder calls made on the pipeline
    result,            \* what the last PipelineBuilder call returned: [op, value]
    loader,            \* which _load_pipeline the runner has: the shipped stub or a storage read
    max_concurrent_pipelines,  \* PipelineRunner.max_concurrent_pipelines
    max_concurrent_nodes,      \* PipelineRunner.max_concurrent_nodes
    handler_raises,    \* whether the handlers registered on the runner's events raise
    monitor,           \* the _monitoring_loop task: "idle" (not created), "waiting" (created or
                       \* in its sleep), "spinning" (retrying its pass without a suspension),
                       \* "exited"
    running,           \* PipelineRunner._running
    lifecycle,         \* "new" (constructed), "started" (start() called), "stopped" (stop() called)
    active_executions, \* PipelineRunner.active_executions: execution id -> PipelineExecution
    execution_queue,   \* PipelineRunner.execution_queue: list of execution ids
    nextExec,          \* next fresh execution id, as a counter (uuid.uuid4())
    submissions,       \* number of execute_pipeline calls the runner's callers make
    scheduler,         \* the _execution_scheduler task: 0 when in its loop, else the id of the
                       \* execution whose _start_execution it awaits
    tasks,             \* node tasks: execution id -> node id -> position of its _execute_node task
    attempts,          \* history: execution id -> node id -> number of calls of _run_node_logic
    node_completed,    \* history: execution id -> node id -> number of on_node_completed calls
    steps,             \* StepExecutor: the execute_step calls made, step id -> call state
    processes,         \* the child processes started for steps, step id -> process state
    active_processes,  \* StepExecutor.active_processes: the step ids it holds a process for
    cancelled_steps,   \* StepExecutor.cancelled_steps
    max_size,          \* LogBuffer.max_size
    entries,           \* LogBuffer.entries: the deque of LogEntry
    subscribers,       \* LogBuffer.subscribers in insertion order: list of [id, callbacks]
    filters,           \* LogBuffer.filters: subscription id -> filters
    notify_tasks,      \* the _notify_subscribers tasks created and not yet run: their entries
    log_calls,         \* the log() calls suspended in _write_to_file: their entries
    log_files,         \* the lines written to the log files, in write order
    active_streams,    \* LogStreamer.active_streams: stream id -> asyncio.Queue [items, maxsize]
    clock,             \* datetime.now(), in ticks
    logged,            \* history: every entry add_entry was called with, in order
    delivered,         \* history: callback -> the seq of the entries it was called with
    registered,        \* history: subscribed callback -> the [id, filters] it subscribed with
    streamed,          \* history: stream id -> the entries put on its queue since its creation
    log_result,        \* what the last query of the logs returned
    log_ops,           \* number of subscribe, unsubscribe, create_stream, close_stream calls
    generator          \* the get_stream_generator coroutine: [pc, filters, out]

vars == <<pipeline, nextId, calls, result, loader, max_concurrent_pipelines,
          max_concurrent_nodes, handler_raises, monitor, running, lifecycle, active_executions, execution_queue,
          nextExec, submissions, scheduler, tasks, attempts, node_completed, steps,
          processes, active_processes, cancelled_steps, max_size, entries, subscribers,
          filters, notify_tasks, log_calls, log_files, active_streams, clock, logged,
          delivered, registered, streamed, log_result, log_ops, generator>>

builderVars == <<pipeline, nextId, calls, result>>

configVars == <<loader, max_concurrent_pipelines, max_concurrent_nodes, handler_raises>>

runnerVars == <<configVars, monitor, running, lifecycle,
                active_executions, execution_queue, nextExec, submissions, scheduler, tasks,
                attempts, node_completed>>

stepVars == <<steps, processes, active_processes, cancelled_steps>>

logVars == <<max_size, entries, subscribers, filters, notify_tasks, log_calls, log_files,
             active_streams, clock, logged, delivered, registered, streamed, log_result,
             log_ops, generator>>

----------------------------------------------------------------------------
(* Bounds of the model.                                                    *)

MaxCalls == 6          \* mutating PipelineBuilder calls made on the edited pipeline
MaxNodes == 4          \* nodes of the pipelines whose staging is computed
MaxRetry == 1          \* largest PipelineNode.retry_count of a run pipeline
MaxExecutions == 1     \* executions of the fan-in pipeline submitted to one runner
MaxPoolExecutions == 3 \* executions of the one-node pipeline submitted to one runner
MaxPipelines == 2      \* largest max_concurrent_pipelines a runner is built with
MaxConcurrentNodes == 1 \* max_concurrent_nodes the runner is built with
MaxSteps == 2          \* execute_step calls made on one StepExecutor
MaxLogs == 3           \* log() calls made on one LogStreamer
MaxLogOps == 2         \* subscribe, unsubscribe, get_entries and stream calls made on it
MaxQueries == 1        \* get_historical_logs calls made on it
MaxBacklog == 2        \* entries the producers let wait on a stream queue

None == "None"

\* the None that _load_pipeline returns where a Pipeline is expected
NoPipeline == [none |-> TRUE]

----------------------------------------------------------------------------
(* Lists.                                                                  *)

SeqToSet(s) == {s[i] : i \in DOMAIN s}

Contains(s, x) == \E i \in DOMAIN s : s[i] = x

\* list.remove(x): drops the first occurrence of x
RECURSIVE ListRemove(_, _)
ListRemove(s, x) ==
    IF s = <<>> THEN <<>>
    ELSE IF Head(s) = x THEN Tail(s)
    ELSE <<Head(s)>> \o ListRemove(Tail(s), x)

RECURSIVE Concat(_)
Concat(ss) == IF ss = <<>> THEN <<>> ELSE Head(ss) \o Concat(Tail(ss))

----------------------------------------------------------------------------
(* PipelineBuilder.py: node types, node definitions, the Pipeline model.   *)

NodeType == {"source", "build", "test", "deploy", "notification", "condition",
             "parallel", "sequential"}

\* node_definitions[type]["required_config"]; a type without a definition has none
required_config(type) ==
    CASE type = "source" -> <<"repository", "branch">>
      [] type = "build" -> <<"build_command">>
      [] type = "test" -> <<"test_command">>
      [] type = "deploy" -> <<"target_environment", "deploy_command">>
      [] type = "notification" -> <<"notification_type", "recipients">>
      [] type = "condition" -> <<"condition_expression">>
      [] OTHER -> <<>>

\* PipelineNode(id, name, type, config, position) with the dataclass defaults
PipelineNode(id, type, config) ==
    [id |-> id, type |-> type, config |-> config, dependencies |-> <<>>,
     retry_count |-> 0, continue_on_error |-> FALSE]

\* create_pipeline: a new empty pipeline
create_pipeline(id) == [id |-> id, nodes |-> <<>>, connections |-> <<>>]

NodeIdList(p) == [i \in DOMAIN p.nodes |-> p.nodes[i].id]

NodeIds(p) == {p.nodes[i].id : i \in DOMAIN p.nodes}

NodeOf(p, id) == p.nodes[CHOOSE i \in DOMAIN p.nodes : p.nodes[i].id = id]

add_node(p, id, type, config) ==
    [p EXCEPT !.nodes = Append(@, PipelineNode(id, type, config))]

\* mutant of remove_node: the connections of the removed node are left in place
remove_node_KeepsConnections(p, node_id) ==
    LET kept == SelectSeq(p.nodes, LAMBDA n : n.id # node_id)
    IN [p EXCEPT
          !.nodes = [i \in DOMAIN kept |->
                       [kept[i] EXCEPT !.dependencies = ListRemove(@, node_id)]]]

remove_node(p, node_id) ==
    LET kept == SelectSeq(p.nodes, LAMBDA n : n.id # node_id)
    IN [p EXCEPT
          !.nodes = [i \in DOMAIN kept |->
                       [kept[i] EXCEPT !.dependencies = ListRemove(@, node_id)]],
          !.connections = SelectSeq(@, LAMBDA c : c.from # node_id /\ c.to # node_id)]

\* mutant of connect_accepts: the check for an existing connection is skipped
connect_accepts_IgnoresExisting(p, from_id, to_id) ==
    /\ from_id \in NodeIds(p)
    /\ to_id \in NodeIds(p)

\* connect_nodes returns False, and changes nothing, when an end is missing or the edge exists
connect_accepts(p, from_id, to_id) ==
    /\ from_id \in NodeIds(p)
    /\ to_id \in NodeIds(p)
    /\ ~ \E i \in DOMAIN p.connections :
           p.connections[i].from = from_id /\ p.connections[i].to = to_id

connect_nodes(p, from_id, to_id) ==
    IF ~ connect_accepts(p, from_id, to_id) THEN p
    ELSE [p EXCEPT
            !.connections = Append(@, [from |-> from_id, to |-> to_id]),
            !.nodes = [i \in DOMAIN @ |->
                         IF @[i].id = to_id /\ ~ Contains(@[i].dependencies, from_id)
                         THEN [@[i] EXCEPT !.dependencies = Append(@, from_id)]
                         ELSE @[i]]]

disconnect_nodes(p, from_id, to_id) ==
    [p EXCEPT
       !.connections = SelectSeq(@, LAMBDA c : ~ (c.from = from_id /\ c.to = to_id)),
       !.nodes = [i \in DOMAIN @ |->
                    IF @[i].id = to_id
                    THEN [@[i] EXCEPT !.dependencies = ListRemove(@, from_id)]
                    ELSE @[i]]]

\* node_id_mapping[node.id] = new_id, filled in node order (a repeated id keeps its last entry);
\* the i-th uuid4 drawn by the call is modelled as base + i, base being past every id in use
node_id_mapping(p, base) ==
    [id \in NodeIds(p) |->
        base + CHOOSE i \in DOMAIN p.nodes :
                  /\ p.nodes[i].id = id
                  /\ \A j \in DOMAIN p.nodes : p.nodes[j].id = id => j <= i]

\* mutant of clone_pipeline: the copied nodes keep the dependencies of the source nodes
clone_pipeline_KeepsDependencies(p, pipeline_id, base) ==
    LET m == node_id_mapping(p, base)
    IN [id |-> pipeline_id,
        nodes |-> [i \in DOMAIN p.nodes |-> [p.nodes[i] EXCEPT !.id = base + i]],
        connections |-> [i \in DOMAIN p.connections |->
                           [from |-> m[p.connections[i].from],
                            to |-> m[p.connections[i].to]]]]

\* clone_pipeline: new config id, one new node per node in order, connections and
\* dependencies looked up in node_id_mapping; a lookup of an unmapped id raises KeyError
clone_pipeline(p, pipeline_id, base) ==
    LET m == node_id_mapping(p, base)
        mapped == /\ \A i \in DOMAIN p.connections :
                       {p.connections[i].from, p.connections[i].to} \subseteq DOMAIN m
                  /\ \A i \in DOMAIN p.nodes :
                       SeqToSet(p.nodes[i].dependencies) \subseteq DOMAIN m
    IN IF ~ mapped THEN [raised |-> "KeyError"]
       ELSE [id |-> pipeline_id,
             nodes |-> [i \in DOMAIN p.nodes |->
                          [p.nodes[i] EXCEPT
                             !.id = base + i,
                             !.dependencies = [j \in DOMAIN @ |-> m[@[j]]]]],
             connections |-> [i \in DOMAIN p.connections |->
                                [from |-> m[p.connections[i].from],
                                 to |-> m[p.connections[i].to]]]]

----------------------------------------------------------------------------
(* Topological staging: PipelineBuilder.get_execution_order and            *)
(* PipelineRunner._calculate_execution_order (the same Kahn leveling).     *)

\* graph[node_id]: the targets of node_id's outgoing connections, in connection order
graph_of(p, node_id) ==
    LET out == SelectSeq(p.connections, LAMBDA c : c.from = node_id)
    IN [i \in DOMAIN out |-> out[i].to]

\* in_degree after the loop over pipeline.connections
in_degree_of(p) ==
    [id \in NodeIds(p) |->
        Cardinality({i \in DOMAIN p.connections : p.connections[i].to = id})]

\* mutant of Relax: a released neighbor is queued without waiting for its in-degree to reach 0
RECURSIVE Relax_QueuesEarly(_, _, _)
Relax_QueuesEarly(neighbors, in_degree, queue) ==
    IF neighbors = <<>> THEN [in_degree |-> in_degree, queue |-> queue]
    ELSE LET nb == Head(neighbors)
             d == in_degree[nb] - 1
         IN Relax_QueuesEarly(Tail(neighbors), [in_degree EXCEPT ![nb] = d],
                              IF d >= 0 THEN Append(queue, nb) ELSE queue)

\* for neighbor in graph[node_id]: in_degree[neighbor] -= 1; append it when it reaches 0
RECURSIVE Relax(_, _, _)
Relax(neighbors, in_degree, queue) ==
    IF neighbors = <<>> THEN [in_degree |-> in_degree, queue |-> queue]
    ELSE LET nb == Head(neighbors)
             d == in_degree[nb] - 1
         IN Relax(Tail(neighbors), [in_degree EXCEPT ![nb] = d],
                  IF d = 0 THEN Append(queue, nb) ELSE queue)

\* while queue: the queue is one stage; the next queue is what its nodes release
RECURSIVE KahnLoop(_, _, _, _)
KahnLoop(p, queue, in_degree, stages) ==
    IF queue = <<>> THEN stages
    ELSE LET neighbors == Concat([i \in DOMAIN queue |-> graph_of(p, queue[i])])
             r == Relax(neighbors, in_degree, <<>>)
         IN KahnLoop(p, r.queue, r.in_degree, Append(stages, queue))

\* queue = [node_id for node_id, degree in in_degree.items() if degree == 0]
InitialQueue(p) ==
    LET deg == in_degree_of(p)
    IN SelectSeq(NodeIdList(p), LAMBDA id : deg[id] = 0)

get_execution_order(p) ==
    IF p.nodes = <<>> THEN <<>>
    ELSE KahnLoop(p, InitialQueue(p), in_degree_of(p), <<>>)

calculate_execution_order(p) ==
    KahnLoop(p, InitialQueue(p), in_degree_of(p), <<>>)

----------------------------------------------------------------------------
(* PipelineBuilder._has_cycles: depth-first search with a recursion stack. *)

\* graph.get(node_id, []): only connections whose from is a node are recorded
cycle_graph(p, node_id) ==
    IF node_id \in NodeIds(p) THEN graph_of(p, node_id) ELSE <<>>

RECURSIVE dfs(_, _, _)
RECURSIVE dfs_neighbors(_, _, _)

\* mutant of dfs: the visited test comes before the recursion-stack test, so a back edge
\* into the recursion stack is taken for an already explored node
dfs_VisitedFirst(p, node_id, st) ==
    IF node_id \in st.visited THEN [st EXCEPT !.found = FALSE]
    ELSE IF node_id \in st.rec_stack THEN [st EXCEPT !.found = TRUE]
    ELSE LET entered == [visited |-> st.visited \cup {node_id},
                         rec_stack |-> st.rec_stack \cup {node_id},
                         found |-> FALSE]
             r == dfs_neighbors(p, cycle_graph(p, node_id), entered)
         IN IF r.found THEN r
            ELSE [r EXCEPT !.rec_stack = @ \ {node_id}]

\* st = [visited, rec_stack, found]; found is dfs's return value
dfs(p, node_id, st) ==
    IF node_id \in st.rec_stack THEN [st EXCEPT !.found = TRUE]
    ELSE IF node_id \in st.visited THEN [st EXCEPT !.found = FALSE]
    ELSE LET entered == [visited |-> st.visited \cup {node_id},
                         rec_stack |-> st.rec_stack \cup {node_id},
                         found |-> FALSE]
             r == dfs_neighbors(p, cycle_graph(p, node_id), entered)
         IN IF r.found THEN r
            ELSE [r EXCEPT !.rec_stack = @ \ {node_id}]

dfs_neighbors(p, neighbors, st) ==
    IF neighbors = <<>> THEN [st EXCEPT !.found = FALSE]
    ELSE LET r == dfs(p, Head(neighbors), st)
         IN IF r.found THEN r ELSE dfs_neighbors(p, Tail(neighbors), r)

\* for node_id in graph: if node_id not in visited: if dfs(node_id): return True
RECURSIVE dfs_roots(_, _, _)
dfs_roots(p, ids, st) ==
    IF ids = <<>> THEN FALSE
    ELSE IF Head(ids) \in st.visited THEN dfs_roots(p, Tail(ids), st)
    ELSE LET r == dfs(p, Head(ids), st)
         IN IF r.found THEN TRUE ELSE dfs_roots(p, Tail(ids), r)

has_cycles(p) ==
    dfs_roots(p, NodeIdList(p), [visited |-> {}, rec_stack |-> {}, found |-> FALSE])

----------------------------------------------------------------------------
(* PipelineBuilder.validate_pipeline and what it calls.                    *)

\* _validate_node: one error per required config key the node lacks
validate_node(node) ==
    SelectSeq(required_config(node.type), LAMBDA k : k \notin node.config)

\* _find_disconnected_nodes: nodes not reached, over undirected connections, from the
\* source nodes (from the first node when no node is a source)
RECURSIVE Connected(_, _)
Connected(p, seen) ==
    LET more == {c.to : c \in {x \in SeqToSet(p.connections) : x.from \in seen}}
                \cup {c.from : c \in {x \in SeqToSet(p.connections) : x.to \in seen}}
    IN IF more \subseteq seen THEN seen ELSE Connected(p, seen \cup more)

find_disconnected_nodes(p) ==
    IF p.nodes = <<>> THEN <<>>
    ELSE LET sources == {n.id : n \in {x \in SeqToSet(p.nodes) : x.type = "source"}}
             start == IF sources = {} THEN {p.nodes[1].id} ELSE sources
             connected == Connected(p, start)
         IN SelectSeq(NodeIdList(p), LAMBDA id : id \notin connected)

validate_pipeline(p) ==
    LET errors ==
            (IF p.nodes = <<>> THEN <<"no_nodes">> ELSE <<>>)
            \o (IF has_cycles(p) THEN <<"circular_dependencies">> ELSE <<>>)
            \o Concat([i \in DOMAIN p.nodes |-> validate_node(p.nodes[i])])
        warnings ==
            (IF find_disconnected_nodes(p) # <<>> THEN <<"disconnected_nodes">> ELSE <<>>)
            \o (IF \A i \in DOMAIN p.nodes : p.nodes[i].type # "source"
                THEN <<"no_source_node">> ELSE <<>>)
    IN [valid |-> errors = <<>>, errors |-> errors, warnings |-> warnings,
        node_count |-> Len(p.nodes), connection_count |-> Len(p.connections)]

----------------------------------------------------------------------------
(* SpecBuilder: one pipeline under PipelineBuilder's operations.           *)

\* what add_node is called with: a node type and the keys of its config
NodeInputs ==
    { [type |-> "source", config |-> {"repository", "branch"}],
      [type |-> "build", config |-> {}] }

\* StepExecutor.__init__: no process, no cancelled step, no call made yet
StepExecutorConstructed ==
    /\ steps = << >>
    /\ processes = << >>
    /\ active_processes = {}
    /\ cancelled_steps = {}

\* the callbacks subscribers register
Callbacks == {"cb1", "cb2"}

\* LogStreamer(buffer_size=10000)
DefaultBufferSize == 10000

\* create_stream's default queue_size
DefaultQueueSize == 1000

\* LogStreamer.__init__ with buffer_size = size: LogBuffer(size), no stream, no file written
LogStreamerConstructed(size) ==
    /\ max_size = size
    /\ entries = << >>
    /\ subscribers = << >>
    /\ filters = << >>
    /\ notify_tasks = << >>
    /\ log_calls = {}
    /\ log_files = << >>
    /\ active_streams = << >>
    /\ clock = 1
    /\ logged = << >>
    /\ delivered = [cb \in Callbacks |-> << >>]
    /\ registered = << >>
    /\ streamed = << >>
    /\ log_result = [op |-> "none"]
    /\ log_ops = 0
    /\ generator = [pc |-> "none"]

\* the runner's variables while only the builder is exercised: a constructed, idle runner
RunnerConstructed ==
    /\ loader = "stub"
    /\ max_concurrent_pipelines = MaxPipelines
    /\ max_concurrent_nodes = MaxConcurrentNodes
    /\ handler_raises = FALSE
    /\ monitor = "idle"
    /\ running = FALSE
    /\ lifecycle = "new"
    /\ active_executions = << >>
    /\ execution_queue = << >>
    /\ nextExec = 1
    /\ submissions = 0
    /\ scheduler = 0
    /\ tasks = << >>
    /\ attempts = << >>
    /\ node_completed = << >>

InitBuilder ==
    /\ pipeline = create_pipeline(0)
    /\ nextId = 1
    /\ calls = 0
    /\ result = [op |-> "create_pipeline", value |-> 0]
    /\ RunnerConstructed
    /\ StepExecutorConstructed
    /\ LogStreamerConstructed(DefaultBufferSize)

AddNode ==
    \E inp \in NodeInputs :
        /\ calls < MaxCalls
        /\ pipeline' = add_node(pipeline, nextId, inp.type, inp.config)
        /\ nextId' = nextId + 1
        /\ calls' = calls + 1
        /\ result' = [op |-> "add_node", value |-> nextId]
        /\ UNCHANGED <<runnerVars, stepVars, logVars>>

\* node ids are drawn from the ids generated so far and one id that names no node
RemoveNode ==
    \E node_id \in 1..nextId :
        /\ calls < MaxCalls
        /\ pipeline' = remove_node(pipeline, node_id)
        /\ calls' = calls + 1
        /\ result' = [op |-> "remove_node", value |-> TRUE]
        /\ UNCHANGED <<nextId, runnerVars, stepVars, logVars>>

ConnectNodes ==
    \E from_id \in 1..nextId, to_id \in 1..nextId :
        /\ calls < MaxCalls
        /\ pipeline' = connect_nodes(pipeline, from_id, to_id)
        /\ calls' = calls + 1
        /\ result' = [op |-> "connect_nodes",
                      value |-> connect_accepts(pipeline, from_id, to_id)]
        /\ UNCHANGED <<nextId, runnerVars, stepVars, logVars>>

DisconnectNodes ==
    \E from_id \in 1..nextId, to_id \in 1..nextId :
        /\ calls < MaxCalls
        /\ pipeline' = disconnect_nodes(pipeline, from_id, to_id)
        /\ calls' = calls + 1
        /\ result' = [op |-> "disconnect_nodes", value |-> TRUE]
        /\ UNCHANGED <<nextId, runnerVars, stepVars, logVars>>

GetExecutionOrder ==
    /\ result' = [op |-> "get_execution_order", value |-> get_execution_order(pipeline)]
    /\ UNCHANGED <<pipeline, nextId, calls, runnerVars, stepVars, logVars>>

CalculateExecutionOrder ==
    /\ result' = [op |-> "calculate_execution_order",
                  value |-> calculate_execution_order(pipeline)]
    /\ UNCHANGED <<pipeline, nextId, calls, runnerVars, stepVars, logVars>>

ValidatePipeline ==
    /\ result' = [op |-> "validate_pipeline", value |-> validate_pipeline(pipeline)]
    /\ UNCHANGED <<pipeline, nextId, calls, runnerVars, stepVars, logVars>>

\* the clone's config id is a new uuid4 (1, the source's being 0); its node ids are the
\* next ids no node has been given
ClonePipeline ==
    /\ result' = [op |-> "clone_pipeline", value |-> clone_pipeline(pipeline, 1, nextId - 1)]
    /\ UNCHANGED <<pipeline, nextId, calls, runnerVars, stepVars, logVars>>

NextBuilder ==
    \/ AddNode
    \/ RemoveNode
    \/ ConnectNodes
    \/ DisconnectNodes
    \/ GetExecutionOrder
    \/ CalculateExecutionOrder
    \/ ValidatePipeline
    \/ ClonePipeline

SpecBuilder == InitBuilder /\ [][NextBuilder]_vars

\* the pairs <<i, j>> with i < j <= n, in lexicographic order
ForwardPairs(n) ==
    SelectSeq([k \in 1..(n * n) |-> <<((k - 1) \div n) + 1, ((k - 1) % n) + 1>>],
              LAMBDA pair : pair[1] < pair[2])

\* the pipeline built by n add_node calls, which draw the ids 1..n, and then connect_nodes
\* for the chosen pairs, in order
RECURSIVE BuiltPipeline(_, _, _)
BuiltPipeline(n, pairs, chosen) ==
    IF pairs # << >>
    THEN LET p == BuiltPipeline(n, SubSeq(pairs, 1, Len(pairs) - 1), chosen)
             pair == pairs[Len(pairs)]
         IN IF Len(pairs) \in chosen THEN connect_nodes(p, pair[1], pair[2]) ELSE p
    ELSE IF n > 0
    THEN add_node(BuiltPipeline(n - 1, << >>, chosen), n, "build", {})
    ELSE create_pipeline(0)

\* the acyclic pipelines of up to MaxNodes nodes the staging is computed for
InitStages ==
    /\ \E n \in 0..MaxNodes :
          \E chosen \in SUBSET DOMAIN ForwardPairs(n) :
             /\ pipeline = BuiltPipeline(n, ForwardPairs(n), chosen)
             /\ nextId = n + 1
             /\ calls = n + Cardinality(chosen)
    /\ result = [op |-> "create_pipeline", value |-> 0]
    /\ RunnerConstructed
    /\ StepExecutorConstructed
    /\ LogStreamerConstructed(DefaultBufferSize)

NextStages ==
    \/ GetExecutionOrder
    \/ CalculateExecutionOrder

SpecStages == InitStages /\ [][NextStages]_vars

----------------------------------------------------------------------------
(* NodeValidator.py: the rule sets of the node types and validate_node.    *)
(* A config value is [type, text, numeric, num]: its Python type, str() of *)
(* it, whether float() accepts it, and the number float() gives.           *)

ValidationLevel == {"error", "warning", "info"}

StrValue(text) == [type |-> "str", text |-> text, numeric |-> FALSE, num |-> 0]

IntValue(n, text) == [type |-> "int", text |-> text, numeric |-> TRUE, num |-> n]

BoolValue(b) == [type |-> "bool", text |-> IF b THEN "True" ELSE "False", numeric |-> TRUE,
            num |-> IF b THEN 1 ELSE 0]

\* bool(value)
truthy(value) == ~ (value.text = "" \/ (value.numeric /\ value.num = 0))

\* isinstance(value, expected_type); bool is a subclass of int
isinstance(value, expected_type) ==
    \/ value.type = expected_type
    \/ value.type = "bool" /\ expected_type = "int"

\* ValidationResult(level, message, field, suggestion); a message is named by its rule
ValidationResult(level, message, field, suggestion) ==
    [level |-> level, message |-> message, field |-> field, suggestion |-> suggestion]

\* _load_validation_rules()[node_type]: the rule sets of source and deploy nodes;
\* self.validation_rules.get(node.type.value, {}) for a type that has none
validation_rules(node_type) ==
    CASE node_type = "source" ->
           [required_fields |-> <<"repository", "branch">>,
            optional_fields |-> <<"checkout_path", "submodules", "depth", "token">>,
            field_types |-> <<<<"repository", "str">>, <<"branch", "str">>,
                              <<"checkout_path", "str">>, <<"submodules", "bool">>,
                              <<"depth", "int">>, <<"token", "str">>>>,
            field_patterns |-> <<"repository", "branch">>,
            field_ranges |-> << >>,
            dependencies |-> [min_inputs |-> 0, max_inputs |-> 0,
                              min_outputs |-> 1, max_outputs |-> 1]]
      [] node_type = "deploy" ->
           [required_fields |-> <<"target_environment", "deploy_command">>,
            optional_fields |-> <<"health_check_url", "rollback_enabled", "timeout",
                                  "strategy">>,
            field_types |-> <<<<"target_environment", "str">>, <<"deploy_command", "str">>,
                              <<"health_check_url", "str">>, <<"rollback_enabled", "bool">>,
                              <<"timeout", "int">>, <<"strategy", "str">>>>,
            field_patterns |-> <<"target_environment", "deploy_command",
                                 "health_check_url", "strategy">>,
            field_ranges |-> <<<<"timeout", 30, 3600>>>>,
            dependencies |-> [min_inputs |-> 1, max_inputs |-> 2,
                              min_outputs |-> 0, max_outputs |-> 1]]
      [] OTHER ->
           [required_fields |-> << >>, optional_fields |-> << >>, field_types |-> << >>,
            field_patterns |-> << >>, field_ranges |-> << >>, dependencies |-> << >>]

\* re.match(field_patterns[field], text), for the texts that occur in configs
re_match(field, text) ==
    CASE field = "repository" -> text \in {"owner/repo", "repo"}
      [] field = "branch" -> text \in {"main", "feature/x"}
      [] field = "target_environment" -> text \in {"dev", "staging", "prod", "production"}
      [] field = "deploy_command" -> text # ""
      [] field = "health_check_url" -> text \in {"https://app.example.com"}
      [] field = "strategy" -> text \in {"rolling", "blue-green", "canary"}
      [] OTHER -> FALSE

\* _validate_required_fields: a missing field and an empty one are errors
validate_required_fields(node, rules) ==
    Concat([i \in DOMAIN rules.required_fields |->
              LET field == rules.required_fields[i]
              IN IF field \notin DOMAIN node.config
                 THEN <<ValidationResult("error", "required_missing", field, "add_field")>>
                 ELSE IF ~ truthy(node.config[field])
                 THEN <<ValidationResult("error", "required_empty", field, None)>>
                 ELSE << >>])

\* _validate_field_types
validate_field_types(node, rules) ==
    Concat([i \in DOMAIN rules.field_types |->
              LET field == rules.field_types[i][1]
              IN IF field \in DOMAIN node.config
                    /\ ~ isinstance(node.config[field], rules.field_types[i][2])
                 THEN <<ValidationResult("error", "wrong_type", field, None)>>
                 ELSE << >>])

\* _validate_field_patterns: re.match on str(value)
validate_field_patterns(node, rules) ==
    Concat([i \in DOMAIN rules.field_patterns |->
              LET field == rules.field_patterns[i]
              IN IF field \in DOMAIN node.config /\ ~ re_match(field, node.config[field].text)
                 THEN <<ValidationResult("error", "pattern_mismatch", field, "match_pattern")>>
                 ELSE << >>])

\* _validate_field_ranges: float(value) must lie in the range; a value float() rejects is
\* an error too
validate_field_ranges(node, rules) ==
    Concat([i \in DOMAIN rules.field_ranges |->
              LET field == rules.field_ranges[i][1]
              IN IF field \notin DOMAIN node.config THEN << >>
                 ELSE IF ~ node.config[field].numeric
                 THEN <<ValidationResult("error", "not_numeric", field, None)>>
                 ELSE IF \/ node.config[field].num < rules.field_ranges[i][2]
                         \/ node.config[field].num > rules.field_ranges[i][3]
                 THEN <<ValidationResult("error", "out_of_range", field, None)>>
                 ELSE << >>])

\* _validate_node_dependencies: len(node.dependencies) and the outgoing connections
\* against the bounds of the rule set; a bound the rules lack is 0 or infinity
validate_node_dependencies(node, p, rules) ==
    LET deps == rules.dependencies
        input_count == Len(node.dependencies)
        output_count == Len(SelectSeq(p.connections, LAMBDA c : c.from = node.id))
        bounded(key) == key \in DOMAIN deps
    IN (IF bounded("min_inputs") /\ input_count < deps["min_inputs"]
        THEN <<ValidationResult("error", "too_few_inputs", None, "connect_inputs")>>
        ELSE IF bounded("max_inputs") /\ input_count > deps["max_inputs"]
        THEN <<ValidationResult("warning", "too_many_inputs", None, None)>>
        ELSE << >>)
       \o (IF bounded("min_outputs") /\ output_count < deps["min_outputs"]
           THEN <<ValidationResult("warning", "too_few_outputs", None, "connect_outputs")>>
           ELSE IF bounded("max_outputs") /\ output_count > deps["max_outputs"]
           THEN <<ValidationResult("info", "too_many_outputs", None, None)>>
           ELSE << >>)

\* substring in text, for the texts that occur in configs
contains(substring, text) ==
    substring = "/" /\ text \in {"owner/repo", "feature/x", "https://app.example.com"}

\* _validate_source_node
validate_source_node(node) ==
    (IF "repository" \in DOMAIN node.config
        /\ ~ contains("/", node.config["repository"].text)
     THEN <<ValidationResult("warning", "repository_format", "repository", "owner_name")>>
     ELSE << >>)
    \o (IF "branch" \in DOMAIN node.config /\ node.config["branch"].text \in {"master", "main"}
        THEN <<ValidationResult("info", "production_branch", "branch", None)>>
        ELSE << >>)

\* mutant of validate_deploy_node: the missing health check is an error
validate_deploy_node_HealthCheckError(node) ==
    IF /\ "target_environment" \in DOMAIN node.config
       /\ node.config["target_environment"].text \in {"prod", "production"}
       /\ node.config["target_environment"].type = "str"
    THEN (IF "health_check_url" \notin DOMAIN node.config
          THEN <<ValidationResult("error", "production_health_checks", None,
                                  "Add health_check_url configuration")>>
          ELSE << >>)
         \o (IF ~ ("rollback_enabled" \in DOMAIN node.config
                   /\ node.config["rollback_enabled"] = BoolValue(TRUE))
             THEN <<ValidationResult("warning", "production_rollback", None,
                                     "Set rollback_enabled to true")>>
             ELSE << >>)
    ELSE << >>

\* _validate_deploy_node: a production deployment without health_check_url, and one whose
\* rollback_enabled is not True, each get a warning
validate_deploy_node(node) ==
    IF /\ "target_environment" \in DOMAIN node.config
       /\ node.config["target_environment"].text \in {"prod", "production"}
       /\ node.config["target_environment"].type = "str"
    THEN (IF "health_check_url" \notin DOMAIN node.config
          THEN <<ValidationResult("warning", "production_health_checks", None,
                                  "Add health_check_url configuration")>>
          ELSE << >>)
         \o (IF ~ ("rollback_enabled" \in DOMAIN node.config
                   /\ node.config["rollback_enabled"] = BoolValue(TRUE))
             THEN <<ValidationResult("warning", "production_rollback", None,
                                     "Set rollback_enabled to true")>>
             ELSE << >>)
    ELSE << >>

\* _validate_node_specific, for the node types that have a rule set here
validate_node_specific(node) ==
    CASE node.type = "source" -> validate_source_node(node)
      [] node.type = "deploy" -> validate_deploy_node(node)
      [] OTHER -> << >>

\* _validate_timeout_settings: node.timeout, the attribute of the node
validate_timeout_settings(node) ==
    IF node.timeout <= 0
    THEN <<ValidationResult("error", "timeout_not_positive", "timeout", None)>>
    ELSE IF node.timeout > 7200
    THEN <<ValidationResult("warning", "timeout_very_long", "timeout", None)>>
    ELSE << >>

\* the keys of node.config in insertion order: those the model uses, in the order the
\* configs are written
ConfigKeys == <<"repository", "branch", "target_environment", "deploy_command",
                "health_check_url", "rollback_enabled", "timeout", "region">>

\* _validate_unused_config: an info for every key that is neither required nor optional
validate_unused_config(node, rules) ==
    LET allowed_fields == SeqToSet(rules.required_fields) \cup SeqToSet(rules.optional_fields)
        keys == SelectSeq(ConfigKeys, LAMBDA k : k \in DOMAIN node.config)
    IN Concat([i \in DOMAIN keys |->
                 IF keys[i] \notin allowed_fields
                 THEN <<ValidationResult("info", "unknown_key", keys[i], "remove_key")>>
                 ELSE << >>])

\* NodeValidationReport.errors, .warnings
level_results(results, level) == SelectSeq(results, LAMBDA r : r.level = level)

\* validate_node(node, pipeline_context): the NodeValidationReport; with_context is
\* whether a pipeline is passed
validate_node_report(node, p, with_context) ==
    LET rules == validation_rules(node.type)
        results == validate_required_fields(node, rules)
                   \o validate_field_types(node, rules)
                   \o validate_field_patterns(node, rules)
                   \o validate_field_ranges(node, rules)
                   \o (IF with_context THEN validate_node_dependencies(node, p, rules)
                       ELSE << >>)
                   \o validate_node_specific(node)
                   \o validate_timeout_settings(node)
                   \o validate_unused_config(node, rules)
    IN [node_id |-> node.id, is_valid |-> level_results(results, "error") = << >>,
        results |-> results]

\* get_pipeline_validation_summary(pipeline): the totals over validate_pipeline_nodes
get_pipeline_validation_summary(p) ==
    LET reports == [i \in DOMAIN p.nodes |-> validate_node_report(p.nodes[i], p, TRUE)]
        errors == Concat([i \in DOMAIN reports |-> level_results(reports[i].results, "error")])
        warnings == Concat([i \in DOMAIN reports |->
                              level_results(reports[i].results, "warning")])
    IN [pipeline_name |-> p.name,
        total_nodes |-> Len(reports),
        valid_nodes |-> Len(SelectSeq(reports, LAMBDA r : r.is_valid)),
        total_errors |-> Len(errors),
        total_warnings |-> Len(warnings),
        overall_valid |-> Len(errors) = 0]

\* PipelineNode with its timeout attribute (300 unless it was set on the node)
ValidatedNode(id, type, config, timeout) ==
    [id |-> id, type |-> type, config |-> config, dependencies |-> << >>,
     retry_count |-> 0, continue_on_error |-> FALSE, timeout |-> timeout]

\* a config with or without a key
Optional(key, values) == {<< >>} \cup {key :> value : value \in values}

\* the configs of the deploy nodes that are validated
DeployConfigs ==
    { a @@ b @@ c @@ d @@ e @@ f :
        a \in Optional("target_environment",
                       {StrValue("production"), StrValue("staging"), StrValue("qa")}),
        b \in Optional("deploy_command", {StrValue(""), StrValue("deploy.sh")}),
        c \in Optional("health_check_url", {StrValue("https://app.example.com")}),
        d \in Optional("rollback_enabled", {BoolValue(TRUE), BoolValue(FALSE)}),
        e \in Optional("timeout", {IntValue(60, "60"), IntValue(10, "10")}),
        f \in Optional("region", {StrValue("eu")}) }

\* the config of the source node that may precede the deploy node
SourceConfigs ==
    { ("repository" :> StrValue("owner/repo")) @@ ("branch" :> StrValue("main")) }

\* node.timeout of the deploy node
NodeTimeouts == {300, 0, 9000}

\* PipelineConfig.name
PipelineNames == {"", "Release"}

\* the pipelines that are validated: empty, a deploy node alone, or a source node and a
\* deploy node, connected or not
ValidatedPipelines ==
    LET named(name) == [id |-> 0, name |-> name, nodes |-> << >>, connections |-> << >>]
        deploy(id) == {ValidatedNode(id, "deploy", config, timeout) :
                         config \in DeployConfigs, timeout \in NodeTimeouts}
        source == {ValidatedNode(1, "source", config, 300) : config \in SourceConfigs}
        with(p, node) == [p EXCEPT !.nodes = Append(@, node)]
    IN UNION { {named(name)}
               \cup {with(named(name), d) : d \in deploy(1)}
               \cup UNION { {with(with(named(name), s), d),
                             connect_nodes(with(with(named(name), s), d), 1, 2)} :
                               s \in source, d \in deploy(2) } :
               name \in PipelineNames }

InitValidator ==
    /\ pipeline \in ValidatedPipelines
    /\ nextId = Len(pipeline.nodes) + 1
    /\ calls = Len(pipeline.nodes) + Len(pipeline.connections)
    /\ result = [op |-> "create_pipeline", value |-> 0]
    /\ RunnerConstructed
    /\ StepExecutorConstructed
    /\ LogStreamerConstructed(DefaultBufferSize)

\* NodeValidator.validate_node(node) and validate_node(node, pipeline)
ValidateNode(i, with_context) ==
    /\ i \in DOMAIN pipeline.nodes
    /\ result' = [op |-> "validate_node", node |-> i, with_context |-> with_context,
                  value |-> validate_node_report(pipeline.nodes[i], pipeline, with_context)]
    /\ UNCHANGED <<pipeline, nextId, calls, runnerVars, stepVars, logVars>>

\* NodeValidator.get_pipeline_validation_summary(pipeline)
GetPipelineValidationSummary ==
    /\ result' = [op |-> "get_pipeline_validation_summary",
                  value |-> get_pipeline_validation_summary(pipeline)]
    /\ UNCHANGED <<pipeline, nextId, calls, runnerVars, stepVars, logVars>>

\* what PipelineBuilder reads of a pipeline: of a config, its keys
keys_of(p) == [p EXCEPT !.nodes = [i \in DOMAIN @ |-> [@[i] EXCEPT !.config = DOMAIN @]]]

\* PipelineBuilder.validate_pipeline(pipeline) on the same pipeline
ValidatePipelineConfigs ==
    /\ result' = [op |-> "validate_pipeline", value |-> validate_pipeline(keys_of(pipeline))]
    /\ UNCHANGED <<pipeline, nextId, calls, runnerVars, stepVars, logVars>>

NextValidator ==
    \/ \E i \in DOMAIN pipeline.nodes, with_context \in BOOLEAN :
          ValidateNode(i, with_context)
    \/ GetPipelineValidationSummary
    \/ ValidatePipelineConfigs

SpecValidator == InitValidator /\ [][NextValidator]_vars

----------------------------------------------------------------------------
(* PipelineRunner.py: execution state.                                     *)

\* ExecutionStatus
ExecutionStatus == {"pending", "queued", "running", "completed", "failed", "cancelled",
                    "skipped", "timeout"}

\* NodeExecution.is_completed: the terminal statuses
TerminalStatus == {"completed", "failed", "cancelled", "skipped", "timeout"}

\* NodeExecution(node_id, node_name, status=PENDING)
NodeExecution == [status |-> "pending", error_message |-> None, retry_count |-> 0]

\* execute_pipeline: the PipelineExecution it creates
PipelineExecution(p) ==
    LET order == calculate_execution_order(p)
    IN [pipeline_id |-> p.id,
        status |-> "queued",
        node_executions |-> [id \in NodeIds(p) |-> NodeExecution],
        execution_order |-> order,
        current_stage |-> 0,
        total_stages |-> Len(order),
        error_message |-> None,
        cancelled_by |-> None,
        completed_at |-> None]

\* the node ids of the stage execution.current_stage (a 0-based index, as in the code)
CurrentStage(ex) == ex.execution_order[ex.current_stage + 1]

\* running_count of _execution_scheduler
RunningCount ==
    Cardinality({e \in DOMAIN active_executions : active_executions[e].status = "running"})

\* the storage collaborator's read-by-id, which _load_pipeline stands in for
StorageRead(pipeline_id) == IF pipeline_id = pipeline.id THEN pipeline ELSE NoPipeline

\* _load_pipeline: as shipped it returns None; a runner wired to storage returns the pipeline
load_pipeline(pipeline_id) ==
    IF loader = "stub" THEN NoPipeline ELSE StorageRead(pipeline_id)

\* mutant of are_dependencies_satisfied: only a Failed dependency blocks the node
are_dependencies_satisfied_NotFailed(ex, node) ==
    \A i \in DOMAIN node.dependencies :
        LET dep_id == node.dependencies[i]
        IN /\ dep_id \in DOMAIN ex.node_executions
           /\ ex.node_executions[dep_id].status # "failed"

\* _are_dependencies_satisfied
are_dependencies_satisfied(ex, node) ==
    \A i \in DOMAIN node.dependencies :
        LET dep_id == node.dependencies[i]
        IN /\ dep_id \in DOMAIN ex.node_executions
           /\ ex.node_executions[dep_id].status = "completed"

\* mutant of should_retry: the comparison is off by one
should_retry_OffByOne(node_exec, node) == node_exec.retry_count <= node.retry_count

\* if node_exec.retry_count < node.retry_count
should_retry(node_exec, node) == node_exec.retry_count < node.retry_count

\* mutant of stage_failed: every node that did not end Completed counts as a failure
stage_failed_NotCompleted(ex, node_ids) ==
    \E i \in DOMAIN node_ids : ex.node_executions[node_ids[i]].status # "completed"

\* stage_failed of _start_execution
stage_failed(ex, node_ids) ==
    \E i \in DOMAIN node_ids : ex.node_executions[node_ids[i]].status = "failed"

\* mutant of continue_execution: continue_on_error is ignored
continue_execution_Never(ex, p, node_ids) == FALSE

\* continue_execution of _start_execution: any(continue_on_error of the stage's failed nodes)
continue_execution(ex, p, node_ids) ==
    \E i \in DOMAIN node_ids :
        /\ ex.node_executions[node_ids[i]].status = "failed"
        /\ NodeOf(p, node_ids[i]).continue_on_error

\* mutant of cancel_execution: the node-executions are left as they are
cancel_execution_ExecutionOnly(ex, cancelled_by) ==
    [ex EXCEPT
       !.status = "cancelled",
       !.cancelled_by = cancelled_by,
       !.completed_at = "set"]

\* cancel_execution on one execution: the execution and its running nodes become cancelled
cancel_execution(ex, cancelled_by) ==
    [ex EXCEPT
       !.status = "cancelled",
       !.cancelled_by = cancelled_by,
       !.completed_at = "set",
       !.node_executions = [id \in DOMAIN @ |->
                               IF @[id].status = "running"
                               THEN [@[id] EXCEPT !.status = "cancelled"]
                               ELSE @[id]]]

\* mutant of fire_event: the handler's exception leaves _fire_event
fire_event_Propagates(raises) == [raised |-> raises, logged |-> FALSE]

\* _fire_event(callback, *args): the callback runs inside try/except Exception; what the
\* caller sees (nothing is raised) and whether an error was logged
fire_event(raises) == [raised |-> FALSE, logged |-> raises]

\* an event fired in the outer try of _execute_node: an exception leaving _fire_event would
\* reach its except clause, which marks the node FAILED with the exception's text
node_event(node_exec) ==
    IF fire_event(handler_raises).raised
    THEN [node_exec EXCEPT !.status = "failed", !.error_message = "handler error"]
    ELSE node_exec

\* an event fired in the try of _start_execution: an exception leaving _fire_event would
\* reach its except clause, which marks the execution FAILED with the exception's text
execution_event(ex) ==
    IF fire_event(handler_raises).raised
    THEN [ex EXCEPT !.status = "failed", !.error_message = "handler error",
                    !.completed_at = "set"]
    ELSE ex

\* the event loop runs other coroutines: no coroutine is looping without a suspension
loop_runs == monitor # "spinning"

\* one pass of the try block of _monitoring_loop over the table. PipelineExecution defines
\* no is_completed, so the test of the first execution examined raises AttributeError and
\* nothing is collected for removal
monitoring_pass(executions) ==
    [raised |-> DOMAIN executions # {}, to_remove |-> {}]

\* the start of _execute_node, up to its first await: the dependency check, then RUNNING.
\* st = [ex, task, attempts] of one execution; returns st after node_id's task has run it.
execute_node_entry(st, p, node_id) ==
    IF ~ are_dependencies_satisfied(st.ex, NodeOf(p, node_id))
    THEN [st EXCEPT
            !.ex.node_executions[node_id].status = "skipped",
            !.ex.node_executions[node_id].error_message = "Dependencies not satisfied",
            !.task[node_id] = "done"]
    ELSE IF fire_event(handler_raises).raised
    THEN [st EXCEPT
            !.ex.node_executions[node_id] = node_event([@ EXCEPT !.status = "running"]),
            !.task[node_id] = "done"]
    ELSE [st EXCEPT
            !.ex.node_executions[node_id].status = "running",
            !.task[node_id] = "step",
            !.attempts[node_id] = @ + 1]

\* the tasks _execute_stage created run, in creation order, up to their first await
RECURSIVE start_tasks(_, _, _)
start_tasks(st, p, node_ids) ==
    IF node_ids = <<>> THEN st
    ELSE start_tasks(IF st.task[Head(node_ids)] = "created"
                     THEN execute_node_entry(st, p, Head(node_ids))
                     ELSE st,
                     p, Tail(node_ids))

\* mutant of gather_done: the wait returns when the first task of the stage has finished
gather_done_FirstCompleted(task, node_ids) ==
    \E i \in DOMAIN node_ids : task[node_ids[i]] = "done"

\* asyncio.gather(*tasks) of _execute_stage returns: every task of the stage has finished
gather_done(task, node_ids) ==
    \A i \in DOMAIN node_ids : task[node_ids[i]] = "done"

\* _execute_stage up to its await: one task per node of the stage
create_tasks(task, node_ids) ==
    [id \in DOMAIN task |-> IF Contains(node_ids, id) THEN "created" ELSE task[id]]

\* mutant of fires_node_completed: the completion event is fired after every attempt
fires_node_completed_EveryAttempt(retrying) == IF retrying THEN 1 ELSE 1

\* the number of on_node_completed calls _execute_node makes once the step has resolved: the
\* retry branch returns before the completion event, every other branch falls through to it
fires_node_completed(retrying) == IF retrying THEN 0 ELSE 1

\* the end of _start_execution: the final status and completed_at, then the completion
\* event (on_execution_completed or on_execution_failed)
finish_execution(ex) ==
    execution_event([ex EXCEPT !.status = IF @ = "running" THEN "completed" ELSE @,
                               !.completed_at = "set"])

----------------------------------------------------------------------------
(* Spec: one PipelineRunner, the pipeline it is given, its tasks.          *)

\* PipelineNode.retry_count / continue_on_error set on a node of a built pipeline
with_policy(p, node_id, retry_count, continue_on_error) ==
    [p EXCEPT !.nodes = [i \in DOMAIN @ |->
        IF @[i].id = node_id
        THEN [@[i] EXCEPT !.retry_count = retry_count,
                          !.continue_on_error = continue_on_error]
        ELSE @[i]]]

\* three test nodes, built with add_node
ThreeNodes ==
    add_node(add_node(add_node(create_pipeline(1),
        1, "test", {"test_command"}), 2, "test", {"test_command"}), 3, "test", {"test_command"})

\* nodes 1 and 2 form the first stage, node 3 depends on both
FanIn == connect_nodes(connect_nodes(ThreeNodes, 1, 3), 2, 3)

\* a pipeline of one test node
OneNode == add_node(create_pipeline(1), 1, "test", {"test_command"})

\* what the runner's callers do: the pipeline they hand to execute_pipeline and how many
\* times. The fan-in comes under every retry/continue policy of its first-stage nodes; the
\* one-node pipeline is submitted more often, to fill the queue.
Workloads ==
    { [pipeline |-> with_policy(with_policy(FanIn, 1, r1, c1), 2, 0, c2),
       submissions |-> MaxExecutions] :
        r1 \in {0, MaxRetry}, c1 \in BOOLEAN, c2 \in BOOLEAN }
    \cup { [pipeline |-> OneNode, submissions |-> MaxPoolExecutions] }

Init ==
    /\ \E w \in Workloads :
          /\ pipeline = w.pipeline
          /\ submissions = w.submissions
    /\ nextId = Len(pipeline.nodes) + 1
    /\ calls = 0
    /\ result = [op |-> "create_pipeline", value |-> 1]
    /\ loader \in {"stub", "storage"}
    /\ max_concurrent_pipelines \in {0, 1, MaxPipelines}
    /\ max_concurrent_nodes = MaxConcurrentNodes
    /\ handler_raises \in BOOLEAN
    /\ monitor = "idle"
    /\ running = FALSE
    /\ lifecycle = "new"
    /\ active_executions = << >>
    /\ execution_queue = << >>
    /\ nextExec = 1
    /\ scheduler = 0
    /\ tasks = << >>
    /\ attempts = << >>
    /\ node_completed = << >>
    /\ StepExecutorConstructed
    /\ LogStreamerConstructed(DefaultBufferSize)

\* start()
Start ==
    /\ loop_runs
    /\ lifecycle = "new"
    /\ running' = TRUE
    /\ lifecycle' = "started"
    /\ monitor' = "waiting"
    /\ UNCHANGED <<builderVars, stepVars, logVars, configVars, active_executions, execution_queue, nextExec,
                   submissions, scheduler, tasks, attempts, node_completed>>

\* stop(): every active execution is cancelled
Stop ==
    /\ loop_runs
    /\ lifecycle = "started"
    /\ running' = FALSE
    /\ lifecycle' = "stopped"
    /\ active_executions' = [e \in DOMAIN active_executions |->
                                cancel_execution(active_executions[e], "System shutdown")]
    /\ execution_queue' = SelectSeq(execution_queue,
                                    LAMBDA e : e \notin DOMAIN active_executions)
    /\ UNCHANGED <<builderVars, stepVars, logVars, configVars, monitor, nextExec, submissions, scheduler, tasks, attempts,
                   node_completed>>

\* execute_pipeline(pipeline): a queued execution with every node pending
ExecutePipeline ==
    /\ loop_runs
    /\ nextExec <= submissions
    /\ active_executions' = active_executions @@ (nextExec :> PipelineExecution(pipeline))
    /\ execution_queue' = Append(execution_queue, nextExec)
    /\ tasks' = tasks @@ (nextExec :> [id \in NodeIds(pipeline) |-> "none"])
    /\ attempts' = attempts @@ (nextExec :> [id \in NodeIds(pipeline) |-> 0])
    /\ node_completed' = node_completed @@ (nextExec :> [id \in NodeIds(pipeline) |-> 0])
    /\ nextExec' = nextExec + 1
    /\ UNCHANGED <<builderVars, stepVars, logVars, configVars, monitor, running, lifecycle, submissions, scheduler>>

\* mutant of CancelExecution: the execution id is left in the queue
CancelExecution_KeepsQueued(e) ==
    /\ loop_runs
    /\ e \in DOMAIN active_executions
    /\ active_executions' =
          [active_executions EXCEPT ![e] = cancel_execution(@, "user")]
    /\ UNCHANGED <<builderVars, stepVars, logVars, configVars, monitor, running, lifecycle, nextExec, submissions,
                   scheduler, tasks, attempts, node_completed, execution_queue>>

\* cancel_execution(execution_id) by a caller
CancelExecution(e) ==
    /\ loop_runs
    /\ e \in DOMAIN active_executions
    /\ active_executions' =
          [active_executions EXCEPT ![e] = cancel_execution(@, "user")]
    /\ execution_queue' = ListRemove(execution_queue, e)
    /\ UNCHANGED <<builderVars, stepVars, logVars, configVars, monitor, running, lifecycle, nextExec, submissions,
                   scheduler, tasks, attempts, node_completed>>

\* mutant of can_admit: the running count is not compared with the limit
can_admit_NoLimit == execution_queue # << >>

\* if running_count < self.max_concurrent_pipelines and self.execution_queue
can_admit ==
    RunningCount < max_concurrent_pipelines /\ execution_queue # << >>

\* one turn of _execution_scheduler's loop that admits: pop(0), then _start_execution up to
\* its first suspension (the gather of the first stage) or, when it does not suspend, its end.
\* on_execution_started is fired first; on_execution_failed, fired in the except clause, is
\* outside the try, and what leaves it is caught and logged by the scheduler's loop
SchedulerAdmit ==
    /\ loop_runs
    /\ lifecycle = "started"
    /\ running
    /\ scheduler = 0
    /\ can_admit
    /\ LET e == Head(execution_queue)
           ex == [active_executions[e] EXCEPT !.status = "running"]
           p == load_pipeline(ex.pipeline_id)
       IN /\ execution_queue' = Tail(execution_queue)
          /\ IF fire_event(handler_raises).raised
             THEN /\ active_executions' = [active_executions EXCEPT ![e] =
                        execution_event(ex)]
                  /\ UNCHANGED <<scheduler, tasks>>
             ELSE IF p = NoPipeline
             THEN /\ active_executions' = [active_executions EXCEPT ![e] =
                        [ex EXCEPT !.status = "failed",
                                   !.error_message = "Pipeline not found",
                                   !.completed_at = "set"]]
                  /\ UNCHANGED <<scheduler, tasks>>
             ELSE IF ex.execution_order = << >>
             THEN /\ active_executions' = [active_executions EXCEPT ![e] =
                        finish_execution(ex)]
                  /\ UNCHANGED <<scheduler, tasks>>
             ELSE /\ active_executions' = [active_executions EXCEPT ![e] =
                        [ex EXCEPT !.current_stage = 0]]
                  /\ tasks' = [tasks EXCEPT ![e] = create_tasks(@, ex.execution_order[1])]
                  /\ scheduler' = e
    /\ UNCHANGED <<builderVars, stepVars, logVars, configVars, monitor, running, lifecycle, nextExec, submissions,
                   attempts, node_completed>>

\* the node tasks of the stage just dispatched run up to their first await
StageTasksStart(e) ==
    /\ loop_runs
    /\ e \in DOMAIN active_executions
    /\ \E id \in DOMAIN tasks[e] : tasks[e][id] = "created"
    /\ LET ex == active_executions[e]
           st == start_tasks([ex |-> ex, task |-> tasks[e], attempts |-> attempts[e]],
                             load_pipeline(ex.pipeline_id), CurrentStage(ex))
       IN /\ active_executions' = [active_executions EXCEPT ![e] = st.ex]
          /\ tasks' = [tasks EXCEPT ![e] = st.task]
          /\ attempts' = [attempts EXCEPT ![e] = st.attempts]
    /\ UNCHANGED <<builderVars, stepVars, logVars, configVars, monitor, running, lifecycle, execution_queue, nextExec,
                   submissions, scheduler, node_completed>>

\* _run_node_logic returns within the timeout: COMPLETED
StepCompletes(e, id) ==
    /\ loop_runs
    /\ e \in DOMAIN active_executions
    /\ id \in DOMAIN tasks[e]
    /\ tasks[e][id] = "step"
    /\ active_executions' =
          [active_executions EXCEPT ![e].node_executions[id] =
              node_event([@ EXCEPT !.status = "completed"])]
    /\ tasks' = [tasks EXCEPT ![e][id] = "done"]
    /\ node_completed' = [node_completed EXCEPT ![e][id] = @ + fires_node_completed(FALSE)]
    /\ UNCHANGED <<builderVars, stepVars, logVars, configVars, monitor, running, lifecycle, execution_queue, nextExec,
                   submissions, scheduler, attempts>>

\* asyncio.TimeoutError from wait_for: TIMEOUT
StepTimesOut(e, id) ==
    /\ loop_runs
    /\ e \in DOMAIN active_executions
    /\ id \in DOMAIN tasks[e]
    /\ tasks[e][id] = "step"
    /\ active_executions' =
          [active_executions EXCEPT ![e].node_executions[id] =
              node_event([@ EXCEPT !.status = "timeout",
                                   !.error_message = "Node timed out"])]
    /\ tasks' = [tasks EXCEPT ![e][id] = "done"]
    /\ node_completed' = [node_completed EXCEPT ![e][id] = @ + fires_node_completed(FALSE)]
    /\ UNCHANGED <<builderVars, stepVars, logVars, configVars, monitor, running, lifecycle, execution_queue, nextExec,
                   submissions, scheduler, attempts>>

\* _run_node_logic raises: FAILED, then the retry branch (retry_count += 1 and the backoff
\* sleep) or completion
StepRaises(e, id) ==
    /\ loop_runs
    /\ e \in DOMAIN active_executions
    /\ id \in DOMAIN tasks[e]
    /\ tasks[e][id] = "step"
    /\ LET ex == active_executions[e]
           node == NodeOf(load_pipeline(ex.pipeline_id), id)
           failed == [ex.node_executions[id] EXCEPT !.status = "failed",
                                                    !.error_message = "step error"]
           retrying == should_retry(failed, node)
       IN /\ IF retrying
             THEN /\ active_executions' = [active_executions EXCEPT
                         ![e].node_executions[id] = [failed EXCEPT !.retry_count = @ + 1]]
                  /\ tasks' = [tasks EXCEPT ![e][id] = "backoff"]
             ELSE /\ active_executions' = [active_executions EXCEPT
                         ![e].node_executions[id] = node_event(failed)]
                  /\ tasks' = [tasks EXCEPT ![e][id] = "done"]
          /\ node_completed' =
                [node_completed EXCEPT ![e][id] = @ + fires_node_completed(retrying)]
    /\ UNCHANGED <<builderVars, stepVars, logVars, configVars, monitor, running, lifecycle, execution_queue, nextExec,
                   submissions, scheduler, attempts>>

\* the backoff sleep ends: await self._execute_node(execution, node), inside the same task
RetryAttempt(e, id) ==
    /\ loop_runs
    /\ e \in DOMAIN active_executions
    /\ id \in DOMAIN tasks[e]
    /\ tasks[e][id] = "backoff"
    /\ LET ex == active_executions[e]
           st == execute_node_entry(
                    [ex |-> ex, task |-> tasks[e], attempts |-> attempts[e]],
                    load_pipeline(ex.pipeline_id), id)
       IN /\ active_executions' = [active_executions EXCEPT ![e] = st.ex]
          /\ tasks' = [tasks EXCEPT ![e] = st.task]
          /\ attempts' = [attempts EXCEPT ![e] = st.attempts]
    /\ UNCHANGED <<builderVars, stepVars, logVars, configVars, monitor, running, lifecycle, execution_queue, nextExec,
                   submissions, scheduler, node_completed>>

\* _start_execution resumes after the gather of the current stage: the cancellation check,
\* the failure check, then the next stage's tasks or the final status
StageBarrier(e) ==
    /\ loop_runs
    /\ scheduler = e
    /\ e \in DOMAIN active_executions
    /\ gather_done(tasks[e], CurrentStage(active_executions[e]))
    /\ LET ex == active_executions[e]
           p == load_pipeline(ex.pipeline_id)
           node_ids == CurrentStage(ex)
       IN IF ex.status = "cancelled"
          THEN /\ scheduler' = 0
               /\ UNCHANGED <<active_executions, tasks>>
          ELSE IF stage_failed(ex, node_ids) /\ ~ continue_execution(ex, p, node_ids)
          THEN /\ active_executions' = [active_executions EXCEPT ![e] =
                     finish_execution([ex EXCEPT
                        !.status = "failed",
                        !.error_message = "Pipeline failed due to node failures"])]
               /\ scheduler' = 0
               /\ UNCHANGED tasks
          ELSE IF ex.current_stage + 1 < Len(ex.execution_order)
          THEN /\ active_executions' = [active_executions EXCEPT ![e] =
                     [ex EXCEPT !.current_stage = @ + 1]]
               /\ tasks' = [tasks EXCEPT ![e] =
                     create_tasks(@, ex.execution_order[ex.current_stage + 2])]
               /\ UNCHANGED scheduler
          ELSE /\ active_executions' = [active_executions EXCEPT ![e] =
                     finish_execution(ex)]
               /\ scheduler' = 0
               /\ UNCHANGED tasks
    /\ UNCHANGED <<builderVars, stepVars, logVars, configVars, monitor, running, lifecycle, execution_queue, nextExec,
                   submissions, attempts, node_completed>>

\* the _monitoring_loop task runs: at its creation or when its 60 s sleep ends. It leaves
\* the loop when _running is false; otherwise it makes a pass over the table and sleeps
\* again, unless the pass raised: the except clause logs and the loop repeats at once,
\* without reaching the sleep, so the pass is retried forever and no other coroutine runs
MonitoringLoop ==
    /\ monitor = "waiting"
    /\ monitor' = IF ~ running THEN "exited"
                  ELSE IF monitoring_pass(active_executions).raised THEN "spinning"
                  ELSE "waiting"
    /\ active_executions' =
          [e \in DOMAIN active_executions \ monitoring_pass(active_executions).to_remove |->
              active_executions[e]]
    /\ UNCHANGED <<builderVars, stepVars, logVars, configVars, running, lifecycle, execution_queue,
                   nextExec, submissions, scheduler, tasks, attempts, node_completed>>

\* time passes: the completed_at of an execution becomes older than the hour the
\* monitoring loop keeps completed executions for
RetentionElapses(e) ==
    /\ e \in DOMAIN active_executions
    /\ active_executions[e].completed_at = "set"
    /\ active_executions' = [active_executions EXCEPT ![e].completed_at = "old"]
    /\ UNCHANGED <<builderVars, stepVars, logVars, configVars, monitor, running, lifecycle,
                   execution_queue, nextExec, submissions, scheduler, tasks, attempts,
                   node_completed>>

\* the execution ids a workload can generate
Executions == 1..submissions

Next ==
    \/ Start
    \/ Stop
    \/ ExecutePipeline
    \/ SchedulerAdmit
    \/ \E e \in Executions : CancelExecution(e)
    \/ \E e \in Executions : StageTasksStart(e)
    \/ \E e \in Executions, id \in NodeIds(pipeline) : StepCompletes(e, id)
    \/ \E e \in Executions, id \in NodeIds(pipeline) : StepTimesOut(e, id)
    \/ \E e \in Executions, id \in NodeIds(pipeline) : StepRaises(e, id)
    \/ \E e \in Executions, id \in NodeIds(pipeline) : RetryAttempt(e, id)
    \/ \E e \in Executions : StageBarrier(e)
    \/ MonitoringLoop

Spec == Init /\ [][Next]_vars

\* the runner as time passes
NextLive ==
    \/ Next
    \/ \E e \in Executions : RetentionElapses(e)

\* the runner over hours of operation; the monitoring task is scheduled whenever it is
\* ready to run
SpecLive == Init /\ [][NextLive]_vars /\ WF_vars(MonitoringLoop)

----------------------------------------------------------------------------
(* StepExecutor.py: one StepExecutor, constructed without a log_callback   *)
(* (as PipelineAPI constructs it), and the execute_step calls made on it.  *)
(* A call runs as a coroutine; it suspends while it waits for its child    *)
(* process (communicate under wait_for) or for the HTTP response.          *)

\* StepStatus
StepStatus == {"pending", "running", "success", "failed", "cancelled", "timeout"}

\* the step types execute_step dispatches on, and one it does not know
StepTypes == {"command", "script", "docker", "api", "test"}

StepTypeInputs == StepTypes \cup {"unknown"}

\* the step types that end in _execute_command_step
uses_process(type) == type \in {"command", "script", "docker", "test"}

\* exit codes of a child process: success, failure, death by SIGTERM
ExitCodes == {0, 1, -15}

\* HTTP statuses of an api step's response
HttpStatuses == {200, 400, 500}

\* the keys _calculate_metrics writes
MetricsKeys == {"duration_seconds", "exit_code", "stdout_lines", "stderr_lines",
                "artifacts_count"}

\* StepResult(step_id, status=PENDING, start_time=now): metrics is {} after __post_init__.
\* exit_code, an Optional[int], is the empty set for None and {code} otherwise
StepResult ==
    [status |-> "pending", exit_code |-> {}, error_message |-> None, metrics |-> {},
     end_time |-> None]

\* mutant of command_failed: only a positive exit code is a failure
command_failed_PositiveOnly(exit_code) == exit_code > 0

\* _execute_command_step: if result.exit_code != 0
command_failed(exit_code) == exit_code # 0

\* _execute_api_step: if response.status >= 400
api_failed(status) == status >= 400

\* the except clauses and the finally of execute_step, for an exception of class exc
catch(res, exc) ==
    [res EXCEPT
       !.status = CASE exc = "CancelledError" -> "cancelled"
                    [] exc = "TimeoutError" -> "timeout"
                    [] OTHER -> "failed",
       !.error_message = exc,
       !.end_time = "set"]

\* execute_step after the step function has returned: _collect_artifacts,
\* _calculate_metrics, RUNNING -> SUCCESS, and the finally
finish_step(res) ==
    [res EXCEPT
       !.metrics = MetricsKeys,
       !.status = IF @ = "running" THEN "success" ELSE @,
       !.end_time = "set"]

\* the variables of the builder and the runner while only the StepExecutor is exercised
InitStep ==
    /\ pipeline = create_pipeline(0)
    /\ nextId = 1
    /\ calls = 0
    /\ result = [op |-> "create_pipeline", value |-> 0]
    /\ RunnerConstructed
    /\ StepExecutorConstructed
    /\ LogStreamerConstructed(DefaultBufferSize)

\* execute_step(step_id, step_config) up to its first suspension: the dispatch on the step
\* type, the required parameter, and for a process step create_subprocess_shell and
\* active_processes[step_id] = process
ExecuteStep ==
    \E type \in StepTypeInputs, has_param \in BOOLEAN :
        LET step_id == Len(steps) + 1
            res == [StepResult EXCEPT !.status = "running"]
            call == [type |-> type, has_param |-> has_param, cancel_step |-> "none"]
        IN /\ Len(steps) < MaxSteps
           /\ IF type \notin StepTypes \/ ~ has_param
              THEN /\ steps' = Append(steps, call @@
                          [pc |-> "returned", result |-> catch(res, "ValueError")])
                   /\ UNCHANGED <<processes, active_processes>>
              ELSE IF uses_process(type)
              THEN /\ steps' = Append(steps, call @@ [pc |-> "communicate", result |-> res])
                   /\ processes' = processes @@ (step_id :> "running")
                   /\ active_processes' = active_processes \cup {step_id}
              ELSE /\ steps' = Append(steps, call @@ [pc |-> "request", result |-> res])
                   /\ UNCHANGED <<processes, active_processes>>
           /\ UNCHANGED <<builderVars, runnerVars, logVars, cancelled_steps>>

\* the child process exits. When execute_step still waits in communicate it resumes: the
\* finally of _execute_command_step, the exit code, then the rest of execute_step
ProcessExits(step_id, code) ==
    /\ step_id \in DOMAIN processes
    /\ processes[step_id] \in {"running", "terminating"}
    /\ processes[step_id] = "running" => code >= 0
    /\ processes' = [processes EXCEPT ![step_id] = "exited"]
    /\ IF steps[step_id].pc = "communicate"
       THEN /\ active_processes' = active_processes \ {step_id}
            /\ steps' = [steps EXCEPT ![step_id] =
                  [@ EXCEPT
                     !.pc = "returned",
                     !.result = finish_step(
                        [@ EXCEPT
                           !.exit_code = {code},
                           !.status = IF command_failed(code) THEN "failed" ELSE @,
                           !.error_message = IF command_failed(code)
                                             THEN "Command failed" ELSE @])]]
       ELSE UNCHANGED <<steps, active_processes>>
    /\ UNCHANGED <<builderVars, runnerVars, logVars, cancelled_steps>>

\* the HTTP response of an api step arrives
ApiResponds(step_id, status) ==
    /\ step_id \in DOMAIN steps
    /\ steps[step_id].pc = "request"
    /\ steps' = [steps EXCEPT ![step_id] =
          [@ EXCEPT
             !.pc = "returned",
             !.result = finish_step(
                [@ EXCEPT
                   !.exit_code = {status},
                   !.status = IF api_failed(status) THEN "failed" ELSE @,
                   !.error_message = IF api_failed(status)
                                     THEN "API request failed" ELSE @])]]
    /\ UNCHANGED <<builderVars, runnerVars, logVars, processes, active_processes, cancelled_steps>>

\* _cleanup_step(step_id) applied to active_processes and the processes: it pops and
\* terminates the process of a step id that is still in active_processes
cleanup_step(active, procs, step_id) ==
    IF step_id \in active
    THEN [active_processes |-> active \ {step_id},
          processes |-> [procs EXCEPT ![step_id] = IF @ = "running" THEN "terminating" ELSE @]]
    ELSE [active_processes |-> active, processes |-> procs]

\* asyncio.TimeoutError from wait_for(process.communicate(), timeout) or from the request:
\* the finally of _execute_command_step pops the process, then except asyncio.TimeoutError
\* of execute_step and its _cleanup_step
StepTimeout(step_id) ==
    /\ step_id \in DOMAIN steps
    /\ steps[step_id].pc \in {"communicate", "request"}
    /\ LET cleaned == cleanup_step(active_processes \ {step_id}, processes, step_id)
       IN /\ active_processes' = cleaned.active_processes
          /\ processes' = cleaned.processes
    /\ steps' = [steps EXCEPT ![step_id] =
          [@ EXCEPT !.pc = "returned", !.result = catch(@, "TimeoutError")]]
    /\ UNCHANGED <<builderVars, runnerVars, logVars, cancelled_steps>>

\* the task that runs execute_step is cancelled while it is suspended: the finally of
\* _execute_command_step, then except asyncio.CancelledError and its _cleanup_step
TaskCancelled(step_id) ==
    /\ step_id \in DOMAIN steps
    /\ steps[step_id].pc \in {"communicate", "request"}
    /\ LET cleaned == cleanup_step(active_processes \ {step_id}, processes, step_id)
       IN /\ active_processes' = cleaned.active_processes
          /\ processes' = cleaned.processes
    /\ steps' = [steps EXCEPT ![step_id] =
          [@ EXCEPT !.pc = "returned", !.result = catch(@, "CancelledError")]]
    /\ UNCHANGED <<builderVars, runnerVars, logVars, cancelled_steps>>

\* cancel_step(step_id) up to its sleep: cancelled_steps.add, process.terminate()
CancelStep(step_id) ==
    /\ step_id \in DOMAIN steps
    /\ steps[step_id].cancel_step = "none"
    /\ cancelled_steps' = cancelled_steps \cup {step_id}
    /\ IF step_id \in active_processes
       THEN /\ processes' = [processes EXCEPT ![step_id] =
                                IF @ = "running" THEN "terminating" ELSE @]
            /\ steps' = [steps EXCEPT ![step_id].cancel_step = "grace"]
       ELSE /\ steps' = [steps EXCEPT ![step_id].cancel_step = "returned"]
            /\ UNCHANGED processes
    /\ UNCHANGED <<builderVars, runnerVars, logVars, active_processes>>

\* cancel_step after its sleep: process.poll() on an asyncio.subprocess.Process, which has
\* no poll method, raises AttributeError before process.kill()
CancelStepGraceEnds(step_id) ==
    /\ step_id \in DOMAIN steps
    /\ steps[step_id].cancel_step = "grace"
    /\ steps' = [steps EXCEPT ![step_id].cancel_step = "raised"]
    /\ UNCHANGED <<builderVars, runnerVars, logVars, processes, active_processes, cancelled_steps>>

StepIds == 1..MaxSteps

NextStep ==
    \/ ExecuteStep
    \/ \E step_id \in StepIds, code \in ExitCodes : ProcessExits(step_id, code)
    \/ \E step_id \in StepIds, status \in HttpStatuses : ApiResponds(step_id, status)
    \/ \E step_id \in StepIds : StepTimeout(step_id)
    \/ \E step_id \in StepIds : TaskCancelled(step_id)
    \/ \E step_id \in StepIds : CancelStep(step_id)
    \/ \E step_id \in StepIds : CancelStepGraceEnds(step_id)

SpecStep == InitStep /\ [][NextStep]_vars

----------------------------------------------------------------------------
(* LogStreamer.py: one LogStreamer and its LogBuffer, the log() calls made *)
(* on it, the subscribers of the buffer and the pull streams.  log() is a  *)
(* coroutine: it builds the entry and appends it to the buffer, suspends   *)
(* in the file write, and streams the entry when the write has ended; the  *)
(* subscribers are notified by a task that add_entry creates.              *)

\* LogLevel
LogLevel == {"debug", "info", "warning", "error", "critical"}

\* what log() is called with: level, source, message, step_id, pipeline_id. A message is the
\* list of its words.
LogInputs ==
    { [level |-> "info", source |-> "runner", message |-> <<"Build", "started">>,
       step_id |-> None, pipeline_id |-> "p1"],
      [level |-> "error", source |-> "runner", message |-> <<"Build", "started">>,
       step_id |-> "s1", pipeline_id |-> "p1"],
      [level |-> "error", source |-> "step", message |-> <<"tests", "failed">>,
       step_id |-> "s1", pipeline_id |-> None] }

\* LogEntry(timestamp, level, source, message, step_id, pipeline_id); seq tells the entries
\* of different log() calls apart (they are different objects)
LogEntry(seq, timestamp, inp) ==
    [seq |-> seq, timestamp |-> timestamp, level |-> inp.level, source |-> inp.source,
     message |-> inp.message, step_id |-> inp.step_id, pipeline_id |-> inp.pipeline_id]

\* the heartbeat entry of get_stream_generator
Heartbeat(timestamp) ==
    LogEntry(0, timestamp, [level |-> "debug", source |-> "streamer",
                            message |-> <<"heartbeat">>, step_id |-> None,
                            pipeline_id |-> None])

\* the filters dictionaries callers pass; the empty function is both None and {}
NoFilter == << >>

FilterInputs ==
    { NoFilter,
      ("level" :> {"error"}) @@ ("source" :> {"step"}) @@ ("step_id" :> {"s1"}),
      ("pipeline_id" :> {"p1"}) @@ ("message_pattern" :> "BUILD") }

\* str.lower on the words that occur
lower(word) ==
    CASE word = "Build" -> "build"
      [] word = "BUILD" -> "build"
      [] OTHER -> word

\* re.search(pattern, message, re.IGNORECASE), for a pattern that is one literal word
search(pattern, message) ==
    \E i \in DOMAIN message : lower(message[i]) = lower(pattern)

\* self.filters.get(subscription_id, {})
filters_get(flt, subscription_id) ==
    IF subscription_id \in DOMAIN flt THEN flt[subscription_id] ELSE NoFilter

\* dict.pop(key, None)
pop(d, key) == [k \in DOMAIN d \ {key} |-> d[k]]

\* _matches_filters(entry, subscription_id): every key present in the subscription's filters
\* is tested, a key that is absent is not
matches_filters(entry, flt, subscription_id) ==
    LET f == filters_get(flt, subscription_id)
    IN /\ "level" \in DOMAIN f => entry.level \in f["level"]
       /\ "source" \in DOMAIN f => entry.source \in f["source"]
       /\ "step_id" \in DOMAIN f => entry.step_id \in f["step_id"]
       /\ "pipeline_id" \in DOMAIN f => entry.pipeline_id \in f["pipeline_id"]
       /\ "message_pattern" \in DOMAIN f => search(f["message_pattern"], entry.message)

\* mutant of add_entry: a full buffer keeps what it holds
add_entry_KeepsOldest(es, entry, maxlen) ==
    IF Len(es) >= maxlen THEN es ELSE Append(es, entry)

\* self.entries.append(entry) on a deque(maxlen=max_size): a full deque drops its leftmost
add_entry(es, entry, maxlen) ==
    IF maxlen = 0 THEN << >>
    ELSE IF Len(es) = maxlen THEN Append(Tail(es), entry)
    ELSE Append(es, entry)

\* the callbacks that raise when they are called
RaisingCallbacks == {"cb2"}

\* the callbacks of the subscriptions whose filters the entry matches, in the order of
\* self.subscribers.items() and of each callback list
matching_callbacks(subs, flt, entry) ==
    Concat([i \in DOMAIN subs |->
              IF matches_filters(entry, flt, subs[i].id) THEN subs[i].callbacks ELSE << >>])

\* mutant of notify_subscribers: the first callback that raises ends the notification
notify_subscribers_StopsAtFailure(subs, flt, entry) ==
    LET all == matching_callbacks(subs, flt, entry)
        bad == {i \in DOMAIN all : all[i] \in RaisingCallbacks}
    IN IF bad = {} THEN all
       ELSE SubSeq(all, 1, CHOOSE i \in bad : \A j \in bad : i <= j)

\* _notify_subscribers(entry): the callbacks called, in order; each call is in its own
\* try/except Exception, so a callback that raises does not end the loops
notify_subscribers(subs, flt, entry) == matching_callbacks(subs, flt, entry)

\* self.subscribers[subscription_id].append(callback) on the defaultdict(list)
subscribers_append(subs, subscription_id, callback) ==
    IF \E i \in DOMAIN subs : subs[i].id = subscription_id
    THEN [i \in DOMAIN subs |->
            IF subs[i].id = subscription_id
            THEN [subs[i] EXCEPT !.callbacks = Append(@, callback)]
            ELSE subs[i]]
    ELSE Append(subs, [id |-> subscription_id, callbacks |-> <<callback>>])

\* subscribe(subscription_id, callback, filters): the filters are stored only when truthy
subscribe(buf, subscription_id, callback, f) ==
    [subscribers |-> subscribers_append(buf.subscribers, subscription_id, callback),
     filters |-> IF f # NoFilter THEN (subscription_id :> f) @@ buf.filters
                 ELSE buf.filters]

\* unsubscribe(subscription_id, callback): with a callback, that callback is removed from
\* the list and the filters stay; without one, the subscription and its filters are popped
unsubscribe(buf, subscription_id, callback) ==
    IF callback # None
    THEN [subscribers |-> [i \in DOMAIN buf.subscribers |->
                             IF buf.subscribers[i].id = subscription_id
                             THEN [buf.subscribers[i] EXCEPT
                                     !.callbacks = ListRemove(@, callback)]
                             ELSE buf.subscribers[i]],
          filters |-> buf.filters]
    ELSE [subscribers |-> SelectSeq(buf.subscribers, LAMBDA s : s.id # subscription_id),
          filters |-> pop(buf.filters, subscription_id)]

\* entries[-n:] for n > 0
last(s, n) == IF n >= Len(s) THEN s ELSE SubSeq(s, Len(s) - n + 1, Len(s))

\* get_entries(filters, limit): [entries returned, self.filters afterwards]. With truthy
\* filters each entry is tested under the subscription id "temp_filter", which is set and
\* popped around the test; a limit of 0, like None, is no limit
get_entries(es, flt, f, limit) ==
    LET filtered == IF f # NoFilter
                    THEN SelectSeq(es, LAMBDA entry :
                            matches_filters(entry, ("temp_filter" :> f) @@ flt, "temp_filter"))
                    ELSE es
    IN [entries |-> IF limit # 0 THEN last(filtered, limit) ELSE filtered,
        filters |-> IF f # NoFilter /\ es # << >> THEN pop(flt, "temp_filter") ELSE flt]

\* mutant of put_entry: a full queue keeps what it holds and the new entry is dropped
put_entry_DropsNewest(queue, entry) ==
    IF queue.maxsize > 0 /\ Len(queue.items) >= queue.maxsize
    THEN queue
    ELSE [queue EXCEPT !.items = Append(@, entry)]

\* the body of the loop of _stream_to_active_listeners: put_nowait; on QueueFull (only a
\* queue with maxsize > 0 is ever full) get_nowait, then put_nowait
put_entry(queue, entry) ==
    IF queue.maxsize > 0 /\ Len(queue.items) >= queue.maxsize
    THEN [queue EXCEPT !.items = Append(Tail(@), entry)]
    ELSE [queue EXCEPT !.items = Append(@, entry)]

\* the file _write_to_file appends the entry to
log_key(entry) ==
    IF entry.pipeline_id # None THEN <<"pipeline", entry.pipeline_id>>
    ELSE IF entry.step_id # None THEN <<"step", entry.step_id>>
    ELSE <<"system">>

\* _read_from_log_files: the lines of the files chosen by pipeline_id, else by step_id, else
\* of every file, that pass the level, pipeline_id and step_id tests
read_from_log_files(files, q) ==
    LET target(entry) ==
            IF q.pipeline_id # None THEN log_key(entry) = <<"pipeline", q.pipeline_id>>
            ELSE IF q.step_id # None THEN log_key(entry) = <<"step", q.step_id>>
            ELSE TRUE
    IN SelectSeq(files, LAMBDA entry :
           /\ target(entry)
           /\ q.level # None => entry.level = q.level
           /\ q.pipeline_id # None => entry.pipeline_id = q.pipeline_id
           /\ q.step_id # None => entry.step_id = q.step_id)

\* sorted(all_entries, key=lambda x: x.timestamp): a stable sort
RECURSIVE sorted(_)
sorted(s) ==
    IF s = << >> THEN << >>
    ELSE LET rest == sorted(SubSeq(s, 1, Len(s) - 1))
             x == s[Len(s)]
             before == SelectSeq(rest, LAMBDA e : e.timestamp <= x.timestamp)
             after == SelectSeq(rest, LAMBDA e : e.timestamp > x.timestamp)
         IN before \o <<x>> \o after

\* entry_key of get_historical_logs
entry_key(entry) == <<entry.timestamp, entry.source, entry.message>>

\* the loop over the sorted entries: an entry is kept when its key has not been seen
RECURSIVE unique(_, _)
unique(s, seen) ==
    IF s = << >> THEN << >>
    ELSE IF entry_key(Head(s)) \in seen THEN unique(Tail(s), seen)
    ELSE <<Head(s)>> \o unique(Tail(s), seen \cup {entry_key(Head(s))})

\* get_historical_logs(pipeline_id, step_id, start_time, end_time, level, limit): [entries
\* returned, self.filters afterwards]. start_time and end_time are sets: empty for None.
get_historical_logs(es, files, flt, q) ==
    LET keys == {k \in {"pipeline_id", "step_id", "level"} : q[k] # None}
        f == [k \in keys |-> {q[k]}]
        got == get_entries(es, flt, f, q.limit)
        buffer_entries == got.entries
        all_entries == read_from_log_files(files, q) \o buffer_entries
        unique_entries == unique(sorted(all_entries), {})
        in_range == SelectSeq(unique_entries, LAMBDA entry :
                       /\ \A t \in q.start_time : ~ (entry.timestamp < t)
                       /\ \A t \in q.end_time : ~ (entry.timestamp > t))
    IN [entries |->
           IF Len(buffer_entries) < q.limit \/ q.start_time # {} \/ q.end_time # {}
           THEN IF q.limit # 0 THEN last(in_range, q.limit) ELSE in_range
           ELSE buffer_entries,
        filters |-> got.filters]

\* asyncio.Queue(maxsize=queue_size), empty
Queue(queue_size) == [items |-> << >>, maxsize |-> queue_size]

\* the subscription ids subscribers use
SubscriptionIds == {"ui", "temp_filter"}

\* the id of the pull stream
StreamIds == {"stream"}

\* the buffer_size a LogStreamer is built with
BufferSizes == {1, 2}

\* the limit a query of the logs is given; get_entries' default None is, like 0, falsy
Limits == {0, 1, 2}

\* the queue_size a stream is created with
QueueSizes == {0, 1, 2}

InitLog ==
    /\ pipeline = create_pipeline(0)
    /\ nextId = 1
    /\ calls = 0
    /\ result = [op |-> "create_pipeline", value |-> 0]
    /\ RunnerConstructed
    /\ StepExecutorConstructed
    /\ \E size \in BufferSizes : LogStreamerConstructed(size)

\* log(level, source, message, step_id, pipeline_id) up to its suspension in _write_to_file:
\* the entry is built with timestamp datetime.now(), which may equal the timestamp of the
\* entry before it, and add_entry appends it and creates the task that notifies subscribers
LogCall(advance) ==
    \E inp \in LogInputs :
        LET entry == LogEntry(Len(logged) + 1, clock + advance, inp)
        IN /\ Len(logged) < MaxLogs
           /\ clock' = clock + advance
           /\ entries' = add_entry(entries, entry, max_size)
           /\ logged' = Append(logged, entry)
           /\ notify_tasks' = Append(notify_tasks, entry)
           /\ log_calls' = log_calls \cup {entry}
           /\ UNCHANGED <<builderVars, runnerVars, stepVars, max_size, subscribers, filters,
                          log_files, active_streams, delivered, registered, streamed,
                          log_result, log_ops, generator>>

\* the oldest _notify_subscribers task runs: the matching callbacks are called in order
NotifySubscribers ==
    /\ notify_tasks # << >>
    /\ LET entry == Head(notify_tasks)
           called == notify_subscribers(subscribers, filters, entry)
       IN delivered' = [cb \in Callbacks |->
                           delivered[cb] \o
                           [i \in 1..Cardinality({j \in DOMAIN called : called[j] = cb}) |->
                               entry.seq]]
    /\ notify_tasks' = Tail(notify_tasks)
    /\ UNCHANGED <<builderVars, runnerVars, stepVars, max_size, entries, subscribers, filters,
                   log_calls, log_files, active_streams, clock, logged, registered, streamed,
                   log_result, log_ops, generator>>

\* a log() call resumes when its file write has ended (written, or failed and logged):
\* _stream_to_active_listeners puts the entry on the queue of every active stream
LogWritten(entry, written) ==
    /\ entry \in log_calls
    /\ log_calls' = log_calls \ {entry}
    /\ log_files' = IF written THEN Append(log_files, entry) ELSE log_files
    /\ active_streams' = [s \in DOMAIN active_streams |-> put_entry(active_streams[s], entry)]
    /\ streamed' = [s \in DOMAIN streamed |-> Append(streamed[s], entry)]
    /\ UNCHANGED <<builderVars, runnerVars, stepVars, max_size, entries, subscribers, filters,
                   notify_tasks, clock, logged, delivered, registered, log_result, log_ops,
                   generator>>

\* subscribe(subscription_id, callback, filters) by a callback that is not subscribed
Subscribe(subscription_id, callback, f) ==
    /\ log_ops < MaxLogOps
    /\ callback \notin DOMAIN registered
    /\ LET buf == subscribe([subscribers |-> subscribers, filters |-> filters],
                            subscription_id, callback, f)
       IN /\ subscribers' = buf.subscribers
          /\ filters' = buf.filters
    /\ registered' = (callback :> [id |-> subscription_id, filters |-> f]) @@ registered
    /\ log_ops' = log_ops + 1
    /\ UNCHANGED <<builderVars, runnerVars, stepVars, max_size, entries, notify_tasks,
                   log_calls, log_files, active_streams, clock, logged, delivered, streamed,
                   log_result, generator>>

\* unsubscribe(subscription_id, callback), callback being None for the whole subscription
Unsubscribe(subscription_id, callback) ==
    /\ log_ops < MaxLogOps
    /\ LET buf == unsubscribe([subscribers |-> subscribers, filters |-> filters],
                              subscription_id, callback)
       IN /\ subscribers' = buf.subscribers
          /\ filters' = buf.filters
    /\ registered' = [cb \in {c \in DOMAIN registered :
                                 ~ (/\ registered[c].id = subscription_id
                                    /\ callback \in {None, c})} |-> registered[cb]]
    /\ log_ops' = log_ops + 1
    /\ UNCHANGED <<builderVars, runnerVars, stepVars, max_size, entries, notify_tasks,
                   log_calls, log_files, active_streams, clock, logged, delivered, streamed,
                   log_result, generator>>

\* LogBuffer.get_entries(filters, limit): what it leaves in the buffer (the list it returns
\* is the caller's)
GetEntries(f, limit) ==
    /\ log_ops < MaxLogOps
    /\ log_ops' = log_ops + 1
    /\ filters' = get_entries(entries, filters, f, limit).filters
    /\ UNCHANGED <<builderVars, runnerVars, stepVars, max_size, entries, subscribers,
                   notify_tasks, log_calls, log_files, active_streams, clock, logged,
                   delivered, registered, streamed, log_result, generator>>

\* create_stream(stream_id, queue_size)
CreateStream(stream_id, queue_size) ==
    /\ log_ops < MaxLogOps
    /\ active_streams' = (stream_id :> Queue(queue_size)) @@ active_streams
    /\ streamed' = (stream_id :> << >>) @@ streamed
    /\ log_ops' = log_ops + 1
    /\ UNCHANGED <<builderVars, runnerVars, stepVars, max_size, entries, subscribers, filters,
                   notify_tasks, log_calls, log_files, clock, logged, delivered, registered,
                   log_result, generator>>

\* close_stream(stream_id)
CloseStream(stream_id) ==
    /\ log_ops < MaxLogOps
    /\ stream_id \in DOMAIN active_streams
    /\ active_streams' = pop(active_streams, stream_id)
    /\ streamed' = pop(streamed, stream_id)
    /\ log_ops' = log_ops + 1
    /\ UNCHANGED <<builderVars, runnerVars, stepVars, max_size, entries, subscribers, filters,
                   notify_tasks, log_calls, log_files, clock, logged, delivered, registered,
                   log_result, generator>>

\* the consumer of a stream takes the entry at the head of its queue: queue.get()
QueueGet(stream_id) ==
    /\ stream_id \in DOMAIN active_streams
    /\ active_streams[stream_id].items # << >>
    /\ active_streams' = [active_streams EXCEPT ![stream_id].items = Tail(@)]
    /\ UNCHANGED <<builderVars, runnerVars, stepVars, max_size, entries, subscribers, filters,
                   notify_tasks, log_calls, log_files, clock, logged, delivered, registered,
                   streamed, log_result, log_ops, generator>>

\* the LogBuffer: entries logged at distinct clock ticks, subscribers, queries
NextLog ==
    \/ LogCall(1)
    \/ NotifySubscribers
    \/ \E subscription_id \in SubscriptionIds, callback \in Callbacks, f \in FilterInputs :
          Subscribe(subscription_id, callback, f)
    \/ \E subscription_id \in SubscriptionIds, callback \in Callbacks \cup {None} :
          Unsubscribe(subscription_id, callback)
    \/ \E f \in FilterInputs, limit \in Limits : GetEntries(f, limit)

SpecLog == InitLog /\ [][NextLog]_vars

\* the pull streams: log() calls, which resume in any order once their line is written,
\* and the stream queues
NextQueue ==
    \/ LogCall(1)
    \/ \E entry \in log_calls : LogWritten(entry, TRUE)
    \/ \E stream_id \in StreamIds, queue_size \in QueueSizes :
          CreateStream(stream_id, queue_size)
    \/ \E stream_id \in StreamIds : CloseStream(stream_id)
    \/ \E stream_id \in StreamIds : QueueGet(stream_id)

SpecQueue == InitLog /\ [][NextQueue]_vars

\* what get_historical_logs is called with: pipeline_id, step_id, level (None when not
\* given), start_time and end_time (the empty set when not given) and limit
HistoryQueries ==
    { [pipeline_id |-> by[1], step_id |-> by[2], level |-> by[3],
       start_time |-> range[1], end_time |-> range[2], limit |-> limit] :
         by \in { <<None, None, None>>, <<"p1", None, None>>, <<None, "s1", None>>,
                  <<None, "s1", "error">> },
         range \in { <<{}, {}>>, <<{2}, {}>>, <<{}, {2}>> },
         limit \in Limits }

\* get_historical_logs(pipeline_id, step_id, start_time, end_time, level, limit); the lines
\* read back are those written before the call
GetHistoricalLogs(q) ==
    /\ log_ops < MaxQueries
    /\ LET got == get_historical_logs(entries, log_files, filters, q)
       IN /\ log_result' = [op |-> "get_historical_logs", q |-> q, value |-> got.entries]
          /\ filters' = got.filters
    /\ log_ops' = log_ops + 1
    /\ UNCHANGED <<builderVars, runnerVars, stepVars, max_size, entries, subscribers,
                   notify_tasks, log_calls, log_files, active_streams, clock, logged,
                   delivered, registered, streamed, generator>>

\* the history of the log: log() calls, two of which may fall on one clock tick, file
\* writes that succeed or fail, and queries
NextHistory ==
    \/ \E advance \in {0, 1} : LogCall(advance)
    \/ \E entry \in log_calls, written \in BOOLEAN : LogWritten(entry, written)
    \/ \E q \in HistoryQueries : GetHistoricalLogs(q)

SpecHistory == InitLog /\ [][NextHistory]_vars

\* get_stream_generator(stream_id, filters) runs up to its first suspension, on the
\* consumer's first request: create_stream with the default queue_size, then the wait for
\* the queue under the 30 s timeout
GeneratorStart(stream_id, f) ==
    /\ generator.pc = "none"
    /\ active_streams' = (stream_id :> Queue(DefaultQueueSize)) @@ active_streams
    /\ generator' = [pc |-> "waiting", stream_id |-> stream_id, filters |-> f, out |-> << >>]
    /\ UNCHANGED <<builderVars, runnerVars, stepVars, max_size, entries, subscribers, filters,
                   notify_tasks, log_calls, log_files, clock, logged, delivered, registered,
                   streamed, log_result, log_ops>>

\* a log() call of the running engine reaches _stream_to_active_listeners; the producers
\* pace themselves so that no more than MaxBacklog entries wait on a queue (the history
\* variables of the log are not kept here)
StreamDeliver(inp) ==
    /\ DOMAIN active_streams # {}
    /\ \A s \in DOMAIN active_streams : Len(active_streams[s].items) < MaxBacklog
    /\ active_streams' = [s \in DOMAIN active_streams |->
                             put_entry(active_streams[s], LogEntry(0, clock, inp))]
    /\ UNCHANGED <<builderVars, runnerVars, stepVars, max_size, entries, subscribers, filters,
                   notify_tasks, log_calls, log_files, clock, logged, delivered, registered,
                   streamed, log_result, log_ops, generator>>

\* queue.get() returns within the timeout: without filters the entry is yielded; with
\* filters it is tested under the subscription id "temp_stream_filter" and yielded while
\* that id is set, or dropped, the id popped, and the generator waits again for 30 s
GeneratorGet ==
    /\ generator.pc = "waiting"
    /\ active_streams[generator.stream_id].items # << >>
    /\ LET entry == Head(active_streams[generator.stream_id].items)
           temp == ("temp_stream_filter" :> generator.filters) @@ filters
       IN IF generator.filters = NoFilter
          THEN /\ generator' = [generator EXCEPT !.pc = "yield_entry", !.out = <<entry>>]
               /\ filters' = filters
          ELSE IF matches_filters(entry, temp, "temp_stream_filter")
          THEN /\ generator' = [generator EXCEPT !.pc = "yield_entry", !.out = <<entry>>]
               /\ filters' = temp
          ELSE /\ generator' = generator
               /\ filters' = pop(temp, "temp_stream_filter")
    /\ active_streams' = [active_streams EXCEPT ![generator.stream_id].items = Tail(@)]
    /\ UNCHANGED <<builderVars, runnerVars, stepVars, max_size, entries, subscribers,
                   notify_tasks, log_calls, log_files, clock, logged, delivered, registered,
                   streamed, log_result, log_ops>>

\* the queue stayed empty for 30 s: asyncio.TimeoutError, the heartbeat is yielded
GeneratorTimeout ==
    /\ generator.pc = "waiting"
    /\ active_streams[generator.stream_id].items = << >>
    /\ generator' = [generator EXCEPT !.pc = "yield_heartbeat", !.out = <<Heartbeat(clock)>>]
    /\ UNCHANGED <<builderVars, runnerVars, stepVars, max_size, entries, subscribers, filters,
                   notify_tasks, log_calls, log_files, active_streams, clock, logged,
                   delivered, registered, streamed, log_result, log_ops>>

\* the consumer asks for the next entry: the generator resumes after its yield (popping
\* the temporary id when it yielded under filters) and waits for the queue again
GeneratorResume ==
    /\ generator.pc \in {"yield_entry", "yield_heartbeat"}
    /\ filters' = IF generator.pc = "yield_entry" /\ generator.filters # NoFilter
                  THEN pop(filters, "temp_stream_filter")
                  ELSE filters
    /\ generator' = [generator EXCEPT !.pc = "waiting"]
    /\ UNCHANGED <<builderVars, runnerVars, stepVars, max_size, entries, subscribers,
                   notify_tasks, log_calls, log_files, active_streams, clock, logged,
                   delivered, registered, streamed, log_result, log_ops>>

\* the consumer closes or cancels the generator: finally, close_stream(stream_id)
GeneratorClose ==
    /\ generator.pc \in {"waiting", "yield_entry", "yield_heartbeat"}
    /\ active_streams' = pop(active_streams, generator.stream_id)
    /\ generator' = [generator EXCEPT !.pc = "closed"]
    /\ UNCHANGED <<builderVars, runnerVars, stepVars, max_size, entries, subscribers, filters,
                   notify_tasks, log_calls, log_files, clock, logged, delivered, registered,
                   streamed, log_result, log_ops>>

\* one consumer of a pull stream, and the log() calls of an engine that goes on running
NextStream ==
    \/ \E stream_id \in StreamIds, f \in FilterInputs : GeneratorStart(stream_id, f)
    \/ \E inp \in LogInputs : StreamDeliver(inp)
    \/ GeneratorGet
    \/ GeneratorTimeout
    \/ GeneratorResume
    \/ GeneratorClose

\* the event loop resumes the generator when its queue has an entry, and the timer of
\* wait_for goes off when the queue stays empty
SpecStream ==
    InitLog /\ [][NextStream]_vars /\ WF_vars(GeneratorGet) /\ WF_vars(GeneratorTimeout)

----------------------------------------------------------------------------
(* Graph notions the properties are stated with (independent of the code's *)
(* algorithms).                                                            *)

\* the nodes reached from the node set S along one or more connections
RECURSIVE ReachPlus(_, _, _)
ReachPlus(p, frontier, seen) ==
    LET next == {c.to : c \in {x \in SeqToSet(p.connections) : x.from \in frontier}}
    IN IF next \subseteq seen THEN seen ELSE ReachPlus(p, next \ seen, seen \cup next)

\* the nodes that lie on a directed cycle (a self-loop included)
OnCycle(p) == {n \in NodeIds(p) : n \in ReachPlus(p, {n}, {})}

HasDirectedCycle(p) == OnCycle(p) # {}

Staged(stages) == UNION {SeqToSet(stages[i]) : i \in DOMAIN stages}

StageIndex(stages, id) == CHOOSE i \in DOMAIN stages : Contains(stages[i], id)

\* no node id occurs twice in the staging
StagesDisjoint(stages) ==
    /\ \A i, j \in DOMAIN stages : i # j => SeqToSet(stages[i]) \cap SeqToSet(stages[j]) = {}
    /\ \A i \in DOMAIN stages : Cardinality(SeqToSet(stages[i])) = Len(stages[i])

\* every staged node comes strictly after each of its dependencies, all of them staged
StagesRespectDependencies(p, stages) ==
    \A id \in Staged(stages) :
        \A dep \in SeqToSet(NodeOf(p, id).dependencies) :
            /\ dep \in Staged(stages)
            /\ StageIndex(stages, dep) < StageIndex(stages, id)

IsOrderResult == result.op \in {"get_execution_order", "calculate_execution_order"}

\* C1 as stated: for every pipeline, computeStages (get_execution_order and
\* _calculate_execution_order) returns a partition of the pipeline's nodes into stages in
\* which every node's stage index is strictly greater than that of each of its dependencies.
C1_PartitionOfEveryPipeline ==
    IsOrderResult =>
        /\ StagesDisjoint(result.value)
        /\ Staged(result.value) = NodeIds(pipeline)
        /\ StagesRespectDependencies(pipeline, result.value)

\* C1 amended: for every pipeline, the stages computeStages returns are pairwise disjoint,
\* no stage is empty, every staged node's stage index is strictly greater than that of each
\* of its dependencies (which are all staged), and when the connections have no directed
\* cycle the stages cover every node of the pipeline (a partition).
C1_StagesOrdered ==
    IsOrderResult =>
        /\ StagesDisjoint(result.value)
        /\ Staged(result.value) \subseteq NodeIds(pipeline)
        /\ \A i \in DOMAIN result.value : result.value[i] # <<>>
        /\ StagesRespectDependencies(pipeline, result.value)
        /\ ~ HasDirectedCycle(pipeline) => Staged(result.value) = NodeIds(pipeline)

\* C1 witness: a staging of three stages has been computed for an acyclic pipeline
C1_Witness ==
    /\ IsOrderResult
    /\ Len(result.value) = 3
    /\ ~ HasDirectedCycle(pipeline)
    /\ \E id \in NodeIds(pipeline) : Len(NodeOf(pipeline, id).dependencies) = 2

\* C2: for every pipeline whose connections contain a directed cycle (a self-loop included),
\* validate_pipeline reports valid = False, and computeStages leaves at least the nodes on
\* the cycle out of the staging it returns.
C2_CycleRejected ==
    HasDirectedCycle(pipeline) =>
        /\ result.op = "validate_pipeline" =>
              /\ ~ result.value.valid
              /\ Contains(result.value.errors, "circular_dependencies")
        /\ IsOrderResult =>
              /\ Staged(result.value) \cap OnCycle(pipeline) = {}
              /\ Staged(result.value) # NodeIds(pipeline)

\* C2 witness: a pipeline whose nodes all have their required config, with a cycle of two
\* nodes below an acyclic node, has been validated
C2_Witness ==
    /\ result.op = "validate_pipeline"
    /\ Cardinality(OnCycle(pipeline)) = 2
    /\ Len(pipeline.nodes) = 3
    /\ result.value.errors = <<"circular_dependencies">>

----------------------------------------------------------------------------
(* Properties of the orchestrator (specification Spec).                    *)

Ex(e) == active_executions[e]

NodeStatus(e, id) == active_executions[e].node_executions[id].status

\* the nodes of the stages before the stage of node id (none when id is in no stage)
EarlierStageNodes(ex, id) ==
    UNION {SeqToSet(ex.execution_order[i]) :
             i \in {k \in DOMAIN ex.execution_order :
                      \E j \in DOMAIN ex.execution_order :
                          k < j /\ Contains(ex.execution_order[j], id)}}

\* the nodes of the stages after the current one
LaterStageNodes(ex) ==
    UNION {SeqToSet(ex.execution_order[i]) :
             i \in {k \in DOMAIN ex.execution_order : k > ex.current_stage + 1}}

\* a step in which _start_execution, awaited by the scheduler for e, passes the barrier of
\* e's current stage: it moves to the next stage or returns
BarrierStep(e) ==
    /\ scheduler = e
    /\ \/ scheduler' # e
       \/ active_executions'[e].current_stage # active_executions[e].current_stage

FailedInStage(ex) ==
    {id \in SeqToSet(CurrentStage(ex)) : ex.node_executions[id].status = "failed"}

C8_SucceedingRunCompletes ==
    \A e \in DOMAIN active_executions :
        (/\ validate_pipeline(pipeline).valid
         /\ ~ HasDirectedCycle(pipeline)
         /\ Ex(e).cancelled_by = None
         /\ Ex(e).completed_at # None
         /\ \A id \in DOMAIN Ex(e).node_executions :
               /\ NodeStatus(e, id) \notin {"failed", "timeout"}
               /\ Ex(e).node_executions[id].retry_count = 0)
        => Ex(e).status = "completed"

RunningNodes(e) == {id \in DOMAIN Ex(e).node_executions : NodeStatus(e, id) = "running"}

CancelOfRunning(e) ==
    /\ Ex(e).status = "running"
    /\ Ex(e).cancelled_by = None
    /\ active_executions'[e].cancelled_by # None

C14_TerminalExecutionStays ==
    [][\A e \in DOMAIN active_executions :
          Ex(e).status \in {"completed", "failed", "cancelled"}
          => active_executions'[e].status = Ex(e).status]_vars

----------------------------------------------------------------------------
(* Properties of the step executor (specification SpecStep).               *)

\* the calls of execute_step that have returned their StepResult
ReturnedSteps == {id \in DOMAIN steps : steps[id].pc = "returned"}

\* C16: when a step has resolved Timeout, the process started for it does not go on
\* running: it has exited or has been sent a termination signal.
C16_TimeoutTerminatesProcess ==
    \A id \in ReturnedSteps :
        (steps[id].result.status = "timeout" /\ id \in DOMAIN processes)
        => processes[id] # "running"

\* C17: no call of execute_step ends by raising; every call that has ended returned a
\* StepResult whose status is Success, Failed, Cancelled or Timeout, an unfinished call has
\* not returned, and a returned status is Failed exactly when the process exit code was
\* non-zero, the HTTP status was >= 400, or an error was raised inside the executor
\* (missing parameter, unknown step type).
C17_FailureIsAResult ==
    \A id \in DOMAIN steps :
        LET call == steps[id]
            res == call.result
        IN /\ call.pc # "raised"
           /\ call.pc = "returned"
              => /\ res.status \in {"success", "failed", "cancelled", "timeout"}
                 /\ res.end_time # None
                 /\ res.status = "failed"
                    <=> \/ uses_process(call.type) /\ \E code \in res.exit_code : code # 0
                        \/ call.type = "api" /\ \E code \in res.exit_code : code >= 400
                        \/ res.error_message \notin {None, "TimeoutError", "CancelledError",
                                                     "Command failed", "API request failed"}
                 /\ res.status = "timeout" <=> res.error_message = "TimeoutError"
                 /\ res.status = "cancelled" <=> res.error_message = "CancelledError"

\* C17 witness: one call returned Failed for a process killed by a signal, another returned
\* Failed for an unknown step type
C17_Witness ==
    \E a \in ReturnedSteps, b \in ReturnedSteps :
        /\ uses_process(steps[a].type)
        /\ steps[a].result.exit_code = {-15}
        /\ steps[a].result.status = "failed"
        /\ steps[b].type = "unknown"
        /\ steps[b].result.status = "failed"
        /\ steps[b].result.error_message = "ValueError"

\* C18: every StepResult execute_step returns carries the metrics summary: duration, stdout
\* and stderr line counts, artifact count.
C18_MetricsOnEveryResult ==
    \A id \in ReturnedSteps :
        {"duration_seconds", "stdout_lines", "stderr_lines", "artifacts_count"}
            \subseteq steps[id].result.metrics

----------------------------------------------------------------------------
(* Cloning and connecting (PipelineBuilder).                               *)

StageSizes(stages) == [i \in DOMAIN stages |-> Len(stages[i])]

\* the node of the clone that stands for node id of the source: the one at the same position
CloneOf(p, c, id) == c.nodes[CHOOSE i \in DOMAIN p.nodes : p.nodes[i].id = id].id

Cloned == result.op = "clone_pipeline"

\* C29: a clone has a pipeline id and node ids that the source does not use, its connections
\* and dependencies are the source's mapped through one bijection between the node ids, and
\* its stages have the sizes of the source's stages
C29_CloneIsIsomorphic ==
    Cloned =>
        LET c == result.value
            m == [id \in NodeIds(pipeline) |-> CloneOf(pipeline, c, id)]
        IN /\ DOMAIN c = {"id", "nodes", "connections"}
           /\ c.id # pipeline.id
           /\ NodeIds(c) \cap NodeIds(pipeline) = {}
           /\ Len(c.nodes) = Len(pipeline.nodes)
           /\ Cardinality(NodeIds(c)) = Cardinality(NodeIds(pipeline))
           /\ \A a, b \in NodeIds(pipeline) : m[a] = m[b] => a = b
           /\ {m[id] : id \in NodeIds(pipeline)} = NodeIds(c)
           /\ c.connections = [i \in DOMAIN pipeline.connections |->
                                 [from |-> m[pipeline.connections[i].from],
                                  to |-> m[pipeline.connections[i].to]]]
           /\ \A i \in DOMAIN pipeline.nodes :
                 c.nodes[i].dependencies =
                     [j \in DOMAIN pipeline.nodes[i].dependencies |->
                         m[pipeline.nodes[i].dependencies[j]]]
           /\ StageSizes(get_execution_order(c)) = StageSizes(get_execution_order(pipeline))

\* a pipeline of two stages, with a dependency, has been cloned
C29_Witness ==
    /\ Cloned
    /\ Len(get_execution_order(pipeline)) >= 2
    /\ \E i \in DOMAIN pipeline.nodes : pipeline.nodes[i].dependencies # << >>
    /\ DOMAIN result.value = {"id", "nodes", "connections"}

HasConnection(p, from_id, to_id) ==
    \E i \in DOMAIN p.connections :
        p.connections[i].from = from_id /\ p.connections[i].to = to_id

\* C30: connect_nodes returns False for a connection that exists and for one with an end
\* that is no node of the pipeline, and a connect that returned False left the pipeline's
\* connections and dependencies as they were
C30_RejectedConnectChangesNothing ==
    /\ [](\A from_id \in 1..nextId, to_id \in 1..nextId :
            (\/ HasConnection(pipeline, from_id, to_id)
             \/ from_id \notin NodeIds(pipeline)
             \/ to_id \notin NodeIds(pipeline))
            => /\ ~ connect_accepts(pipeline, from_id, to_id)
               /\ connect_nodes(pipeline, from_id, to_id) = pipeline)
    /\ [][(calls' = calls + 1 /\ result'.op = "connect_nodes" /\ result'.value = FALSE)
            => pipeline' = pipeline]_vars

\* a connect was rejected on a pipeline that has a connection and whose nodes all exist
C30_Witness ==
    /\ result.op = "connect_nodes"
    /\ result.value = FALSE
    /\ pipeline.connections # << >>
    /\ \E from_id \in NodeIds(pipeline), to_id \in NodeIds(pipeline) :
          HasConnection(pipeline, from_id, to_id)

----------------------------------------------------------------------------
(* Event handlers and the monitoring loop (PipelineRunner).                *)

\* the error texts the runner itself gives a node-execution
NodeErrors == {None, "Dependencies not satisfied", "Node timed out", "step error"}

\* the error texts the runner itself gives an execution
ExecutionErrors == {None, "Pipeline not found", "Pipeline failed due to node failures"}

\* C21: a handler that raises does not change the outcome of the run: _fire_event hands no
\* exception to its caller, whether the handler raised or not, so no node-execution and no
\* execution is failed by, or carries the error of, a handler, and a node-execution is
\* Failed only by its step
C21_HandlerErrorsContained ==
    /\ \A raises \in BOOLEAN : ~ fire_event(raises).raised
    /\ \A e \in DOMAIN active_executions :
          /\ Ex(e).error_message \in ExecutionErrors
          /\ \A id \in DOMAIN Ex(e).node_executions :
                LET node_exec == Ex(e).node_executions[id]
                IN /\ node_exec.error_message \in NodeErrors
                   /\ node_exec.status = "failed" => node_exec.error_message = "step error"

\* with raising handlers on every event, a three-node run has completed: started, node and
\* completion events were all fired
C21_Witness ==
    /\ handler_raises
    /\ \E e \in DOMAIN active_executions :
          /\ Ex(e).status = "completed"
          /\ Cardinality(DOMAIN Ex(e).node_executions) = 3
          /\ \A id \in DOMAIN Ex(e).node_executions : NodeStatus(e, id) = "completed"

\* the monitoring loop is to remove execution e: e is in the table of a started runner, in
\* a terminal status, with a completed_at older than the retention hour
Reapable(e) ==
    /\ lifecycle = "started"
    /\ e \in DOMAIN active_executions
    /\ Ex(e).status \in TerminalStatus
    /\ Ex(e).completed_at = "old"

\* C22: while the runner is started, an execution that is terminal and older than the
\* retention hour is eventually removed from active_executions (or stops being such an
\* execution: a cancel_execution call renews its completed_at, stop() ends the loop), and
\* no step removes a Queued or Running execution from the table
C22_ReaperRemovesOldTerminal ==
    /\ \A e \in 1..MaxPoolExecutions : Reapable(e) ~> ~ Reapable(e)
    /\ [][\A e \in DOMAIN active_executions :
            Ex(e).status \in {"queued", "running"} => e \in DOMAIN active_executions']_vars

----------------------------------------------------------------------------
(* The log buffer, its subscribers and the pull streams (LogStreamer).     *)

\* the last n elements of s, all of s when it has fewer
Suffix(s, n) == [i \in 1..(IF n < Len(s) THEN n ELSE Len(s)) |->
                   s[Len(s) - (IF n < Len(s) THEN n ELSE Len(s)) + i]]

\* C23: the ring buffer holds at most max_size entries, and they are the entries added
\* last, in the order they were added
C23_RingBufferKeepsNewest ==
    /\ Len(entries) <= max_size
    /\ entries = Suffix(logged, max_size)

\* more entries were added than the buffer holds
C23_Witness ==
    /\ Len(logged) > max_size
    /\ Len(entries) = max_size
    /\ entries[1].seq > 1

\* C24: a stream queue never holds more than its capacity (a queue_size of 0 makes an
\* asyncio.Queue without capacity limit), what it holds are the entries streamed to it
\* last, in arrival order (a full queue gave up its oldest), and a log() call waiting to
\* stream its entry can always do so, whatever the queues hold
C24_StreamQueueBounded ==
    /\ \A s \in DOMAIN active_streams :
          LET queue == active_streams[s]
          IN /\ queue.maxsize > 0 => Len(queue.items) <= queue.maxsize
             /\ queue.items = Suffix(streamed[s], Len(queue.items))
    /\ \A entry \in log_calls : ENABLED LogWritten(entry, TRUE)

\* a full queue of capacity 1 or more was given an entry: it holds the newest
C24_Witness ==
    \E s \in DOMAIN active_streams :
        LET queue == active_streams[s]
        IN /\ queue.maxsize > 0
           /\ Len(queue.items) = queue.maxsize
           /\ Len(streamed[s]) > queue.maxsize
           /\ queue.items[Len(queue.items)] = streamed[s][Len(streamed[s])]

\* the step in which a _notify_subscribers task runs
Notifies == notify_tasks # << >> /\ notify_tasks' = Tail(notify_tasks)

\* callback is called in this step
Called(callback) == delivered'[callback] = Append(delivered[callback], Head(notify_tasks).seq)

\* the entry passes every test of the filters f
Passes(entry, f) == matches_filters(entry, "subscriber" :> f, "subscriber")

\* C25: a notification calls a subscriber's callback exactly when the entry matches the
\* filters the subscriber registered with; a subscriber that registered without filters is
\* called for every entry
C25_DeliveredIffMatches ==
    [][Notifies =>
         \A callback \in Callbacks :
            Called(callback) <=>
               /\ callback \in DOMAIN registered
               /\ Passes(Head(notify_tasks), registered[callback].filters)]_vars

\* C26: a callback that raises does not keep the notification from the other subscribers:
\* every callback of a subscription whose filters the entry matches is called, and the
\* entry was appended to the buffer
C26_FailingCallbackIsolated ==
    [][Notifies =>
         /\ \A i \in DOMAIN subscribers :
               matches_filters(Head(notify_tasks), filters, subscribers[i].id) =>
                  \A j \in DOMAIN subscribers[i].callbacks :
                     Called(subscribers[i].callbacks[j])
         /\ Head(notify_tasks) \in SeqToSet(logged)
         /\ max_size > 0 /\ Len(notify_tasks) <= max_size
               => Head(notify_tasks) \in SeqToSet(entries)]_vars

\* the raising callback comes first in the notification order, and the callback after it
\* has been called with an entry the raising one was called with
C26_Witness ==
    /\ Len(subscribers) >= 1
    /\ subscribers[1].callbacks # << >>
    /\ subscribers[1].callbacks[1] \in RaisingCallbacks
    /\ \E seq \in SeqToSet(delivered["cb1"]) : seq \in SeqToSet(delivered["cb2"])


\* the entry is one the query q asks for
Requested(entry, q) ==
    /\ q.pipeline_id # None => entry.pipeline_id = q.pipeline_id
    /\ q.step_id # None => entry.step_id = q.step_id
    /\ q.level # None => entry.level = q.level
    /\ \A t \in q.start_time : entry.timestamp >= t
    /\ \A t \in q.end_time : entry.timestamp <= t

\* the (timestamp, source, message) of the entries of a list
Keys(s) == {<<s[i].timestamp, s[i].source, s[i].message>> : i \in DOMAIN s}

\* C27: get_historical_logs returns at most limit entries, each of them asked for by the
\* query, no two of them with the same (timestamp, source, message); when the buffer and
\* the files hold more than limit such entries, none of those left out is more recent
\* than one that is returned
C27_HistoricalLogsBounded ==
    [][log_ops' = log_ops + 1 =>
         LET q == log_result'.q
             returned == log_result'.value
             held == SelectSeq(log_files \o entries, LAMBDA entry : Requested(entry, q))
         IN /\ Len(returned) <= q.limit
            /\ \A i \in DOMAIN returned : Requested(returned[i], q)
            /\ Cardinality(Keys(returned)) = Len(returned)
            /\ Cardinality(Keys(held)) > q.limit =>
                  \A i \in DOMAIN held, j \in DOMAIN returned :
                     returned[j].timestamp < held[i].timestamp =>
                        <<held[i].timestamp, held[i].source, held[i].message>>
                           \in Keys(returned)]_vars


\* C28: a consumer waiting on a pull stream is eventually given something, an entry or
\* the heartbeat, unless it closes the stream
C28_ConsumerEventuallyReceives ==
    generator.pc = "waiting" ~> generator.pc \in {"yield_entry", "yield_heartbeat", "closed"}


\* C31: the connection list has no pair twice, every connection joins two nodes of the
\* pipeline, and the dependencies of a node are the from-ids of the connections to it
C31_ConnectionsConsistent ==
    /\ \A i, j \in DOMAIN pipeline.connections :
          pipeline.connections[i] = pipeline.connections[j] => i = j
    /\ \A i \in DOMAIN pipeline.connections :
          {pipeline.connections[i].from, pipeline.connections[i].to} \subseteq NodeIds(pipeline)
    /\ \A i \in DOMAIN pipeline.nodes :
          SeqToSet(pipeline.nodes[i].dependencies) =
             {c.from : c \in {x \in SeqToSet(pipeline.connections) :
                                 x.to = pipeline.nodes[i].id}}

\* a node has been removed from a pipeline that still has a connection, and a node that
\* lost a dependency with it keeps another
C31_Witness ==
    /\ result.op = "remove_node"
    /\ Len(pipeline.nodes) < nextId - 1
    /\ \E i \in DOMAIN pipeline.nodes :
          /\ pipeline.nodes[i].dependencies # << >>
          /\ \E id \in 1..(nextId - 1) :
                /\ id \notin NodeIds(pipeline)
                /\ id < pipeline.nodes[i].id


\* the nodes with a connection to id
Predecessors(p, id) == {c.from : c \in {x \in SeqToSet(p.connections) : x.to = id}}

\* the number of connections on the longest path that ends in id (acyclic pipelines)
RECURSIVE LongestPath(_, _)
LongestPath(p, id) ==
    IF Predecessors(p, id) = {} THEN 0
    ELSE LET lengths == {LongestPath(p, from_id) : from_id \in Predecessors(p, id)}
         IN 1 + CHOOSE l \in lengths : \A k \in lengths : k <= l

\* the pipeline has the nodes 1..n and exactly the connections pairs, in that order
IsPipeline(p, n, pairs) ==
    /\ NodeIdList(p) = [i \in 1..n |-> i]
    /\ p.connections = [i \in DOMAIN pairs |-> [from |-> pairs[i][1], to |-> pairs[i][2]]]

\* C32: in the staging of an acyclic pipeline every node is in the stage whose index is
\* the length of the longest dependency path that leads to it (the first stage having
\* index 0); A -> B -> C gives [[A],[B],[C]], the diamond A -> B, A -> C, B -> D, C -> D
\* gives [[A],[B,C],[D]], and the empty pipeline gives no stage
C32_StageIsLongestPath ==
    IsOrderResult =>
        /\ ~ HasDirectedCycle(pipeline) =>
              \A id \in NodeIds(pipeline) :
                 /\ id \in Staged(result.value)
                 /\ StageIndex(result.value, id) = LongestPath(pipeline, id) + 1
        /\ IsPipeline(pipeline, 3, <<<<1, 2>>, <<2, 3>>>>) =>
              result.value = <<<<1>>, <<2>>, <<3>>>>
        /\ IsPipeline(pipeline, 4, <<<<1, 2>>, <<1, 3>>, <<2, 4>>, <<3, 4>>>>) =>
              result.value = <<<<1>>, <<2, 3>>, <<4>>>>
        /\ pipeline.nodes = << >> => result.value = << >>

\* the staging of the diamond has been computed
C32_Witness ==
    /\ IsOrderResult
    /\ IsPipeline(pipeline, 4, <<<<1, 2>>, <<1, 3>>, <<2, 4>>, <<3, 4>>>>)
    /\ Len(result.value) = 3


\* the node validate_node was last called with
Validated == pipeline.nodes[result.node]

\* validate_node has reported on a deploy node whose target_environment is production,
\* whose required fields are present and not empty, and which has no health_check_url
ProductionWithoutHealthCheck ==
    /\ result.op = "validate_node"
    /\ Validated.type = "deploy"
    /\ {"target_environment", "deploy_command"} \subseteq DOMAIN Validated.config
    /\ Validated.config["target_environment"] = StrValue("production")
    /\ truthy(Validated.config["deploy_command"])
    /\ "health_check_url" \notin DOMAIN Validated.config

\* the warning that suggests health_check_url
HealthCheckWarning ==
    ValidationResult("warning", "production_health_checks", None,
                     "Add health_check_url configuration")

\* the warning that suggests rollback_enabled
RollbackWarning ==
    ValidationResult("warning", "production_rollback", None, "Set rollback_enabled to true")

NothingElseToReport ==
    /\ "rollback_enabled" \in DOMAIN Validated.config
    /\ Validated.config["rollback_enabled"] = BoolValue(TRUE)
    /\ Validated.timeout \in 1..7200
    /\ "timeout" \in DOMAIN Validated.config => Validated.config["timeout"].num \in 30..3600
    /\ result.with_context => Len(Validated.dependencies) \in 1..2

C34_ValidIffNamedAndErrorFree ==
    /\ result.op = "get_pipeline_validation_summary" =>
          (result.value.overall_valid <=>
              /\ pipeline.name # ""
              /\ pipeline.nodes # << >>
              /\ \A i \in DOMAIN pipeline.nodes :
                    validate_node_report(pipeline.nodes[i], pipeline, TRUE).is_valid)
    /\ result.op = "validate_pipeline" =>
          (result.value.valid <=>
              /\ pipeline.name # ""
              /\ pipeline.nodes # << >>
              /\ \A i \in DOMAIN pipeline.nodes :
                    validate_node(keys_of(pipeline).nodes[i]) = << >>)


\* C35: for every pipeline built with add_node, remove_node, connect_nodes and
\* disconnect_nodes, _has_cycles returns True exactly when get_execution_order leaves at
\* least one node out of the stages it returns
C35_CycleIffUnstaged ==
    /\ has_cycles(pipeline) <=> Staged(get_execution_order(pipeline)) # NodeIds(pipeline)
    /\ result.op = "get_execution_order" =>
          (Staged(result.value) # NodeIds(pipeline) <=> has_cycles(pipeline))
    /\ result.op = "validate_pipeline" =>
          (Contains(result.value.errors, "circular_dependencies")
              <=> Staged(get_execution_order(pipeline)) # NodeIds(pipeline))

\* C35 witness: the stages of a pipeline with a cycle of two nodes below a node that is on
\* no cycle have been computed, and they hold that one node only
C35_Witness ==
    /\ result.op = "get_execution_order"
    /\ has_cycles(pipeline)
    /\ Len(pipeline.nodes) = 3
    /\ Cardinality(OnCycle(pipeline)) = 2
    /\ Cardinality(Staged(result.value)) = 1


CancelledUnstarted(e) ==
    /\ Ex(e).status = "cancelled"
    /\ ~ Contains(execution_queue, e)
    /\ \A id \in DOMAIN Ex(e).node_executions :
          /\ NodeStatus(e, id) = "pending"
          /\ tasks[e][id] = "none"

\* C37: an execution cancelled while it is Queued is removed from the execution queue, the
\* scheduler never takes it to Running, and none of its node-executions ever leaves Pending
C37_QueuedCancelNeverRuns ==
    [][\A e \in DOMAIN active_executions :
          /\ Ex(e).status = "queued" /\ active_executions'[e].status = "cancelled"
             => CancelledUnstarted(e)'
          /\ CancelledUnstarted(e) => CancelledUnstarted(e)']_vars

\* C37 witness: an execution was cancelled by a caller while queued, and the scheduler has
\* since admitted the execution submitted after it
C37_Witness ==
    \E e, f \in DOMAIN active_executions :
        /\ e < f
        /\ CancelledUnstarted(e)
        /\ Ex(e).cancelled_by = "user"
        /\ Ex(f).status = "running"
        /\ \E id \in DOMAIN tasks[f] : tasks[f][id] = "step"


\* _start_execution is about to resume after the gather of the current stage of a running
\* execution, and every node of the stage ended Completed, Skipped or Timeout
StageEndedWithoutFailure(e) ==
    /\ scheduler = e
    /\ Ex(e).status = "running"
    /\ \A id \in SeqToSet(CurrentStage(Ex(e))) :
          /\ tasks[e][id] = "done"
          /\ NodeStatus(e, id) \in {"completed", "skipped", "timeout"}

C39_StreamOrderIsBufferOrder ==
    \A s \in DOMAIN streamed :
        \A i, j \in DOMAIN streamed[s] :
            i < j => streamed[s][i].seq < streamed[s][j].seq

====
